---- MODULE Spec2Model ----
(***************************************************************************)
(* Model of web_data_collection: query-template expansion, date chunking,  *)
(* the batch and streaming retrieval pipelines with their seen-URL         *)
(* registries (webpage_retrieval.py), and grounding verification and data  *)
(* extraction (data_extraction.py).                                        *)
(*                                                                         *)
(* Strings are sequences of one-character strings, so that str.lower,      *)
(* str.replace and the substring test are computed character by character. *)
(* Dates ("YYYY-MM-DD") are triples <<year, month, day>>; None is NoDate.   *)
(***************************************************************************)
EXTENDS Integers, Sequences, FiniteSets, TLC

VARIABLES
    \* ---- template expander exercised alone
    exTemplates, exVariables, exPc, exResult, exOrder,
    \* ---- date chunker exercised alone
    dcStart, dcEnd, dcChunking, dcPc, dcResult,
    \* ---- _check_grounding exercised alone
    gQuote, gPage, gPc, gResult,
    \* ---- _remove_markdown_links exercised alone: its successive outputs
    gStripped,
    \* ---- extract_data and extract_data_streaming
    xMode, xUrls, xHandlePdfs, xOcr, xPc, xIdx, xOut, xFrom, xLog, xChecks, xError,
    \* ---- one retrieval scenario: the arguments of both interfaces
    inTemplates, inVariables, inStart, inEnd, inChunking, inPages, setOrder,
    inMcCountry, inGeoCountry, inAssignVar, inValueMc, inValueGeo,
    \* ---- the remote service: the response given to the n-th request
    responses,
    \* ---- retrieve_webpages_streaming (a generator) and its consumer
    sPc, sError, sQueries, sCombos, sChunks, sIssued, sItems, sSeen, sYielded,
    sRequests, sPulls,
    \* ---- retrieve_webpages (batch)
    bPc, bError, bQueries, bCombos, bChunks, bIssued, bAll, bChunkAcc, bSeen,
    bResults, bRequests, bReturned,
    \* ---- timeout_function: its call, the alarm, and the caller afterwards
    tTimeout, tFunc, tPc, tElapsed, tAlarm, tResult, tAfter, tStray

exVars == <<exTemplates, exVariables, exPc, exResult, exOrder>>
dcVars == <<dcStart, dcEnd, dcChunking, dcPc, dcResult>>
gVars == <<gQuote, gPage, gPc, gResult, gStripped>>
xVars == <<xMode, xUrls, xHandlePdfs, xOcr, xPc, xIdx, xOut, xFrom, xLog, xChecks, xError>>
inVars == <<inTemplates, inVariables, inStart, inEnd, inChunking, inPages, setOrder,
            inMcCountry, inGeoCountry, inAssignVar, inValueMc, inValueGeo>>
sVars == <<sPc, sError, sQueries, sCombos, sChunks, sIssued, sItems, sSeen, sYielded,
           sRequests, sPulls>>
bVars == <<bPc, bError, bQueries, bCombos, bChunks, bIssued, bAll, bChunkAcc, bSeen,
           bResults, bRequests, bReturned>>
tVars == <<tTimeout, tFunc, tPc, tElapsed, tAlarm, tResult, tAfter, tStray>>
vars == <<exVars, dcVars, gVars, xVars, inVars, responses, sVars, bVars, tVars>>

(***************************************************************************)
(* Bounds of the model.                                                    *)
(***************************************************************************)
MaxTemplates == 2
MaxValues == 2
MaxSpan == 1200
MaxRequests == 4
MaxFragments == 3
MaxUrls == 2
MaxInterleaved == 3
MaxStrips == 2
MaxTimeout == 3

(***************************************************************************)
(* Generic helpers.                                                        *)
(***************************************************************************)
RECURSIVE SeqsUpTo(_, _)
SeqsUpTo(S, n) ==
    IF n = 0 THEN {<<>>}
    ELSE LET shorter == SeqsUpTo(S, n - 1)
         IN  shorter \cup {Append(s, x) : s \in {t \in shorter : Len(t) = n - 1}, x \in S}

RECURSIVE Flatten(_)
Flatten(ss) == IF ss = <<>> THEN <<>> ELSE Head(ss) \o Flatten(Tail(ss))

Range(s) == {s[i] : i \in DOMAIN s}

Orderings(S) == {f \in [1..Cardinality(S) -> S] : Range(f) = S}

(***************************************************************************)
(* Python str operations on character sequences.                           *)
(***************************************************************************)
LowerChar(c) ==
    CASE c = "A" -> "a"
      [] c = "B" -> "b"
      [] c = "C" -> "c"
      [] c = "X" -> "x"
      [] OTHER -> c

StrLower(s) == [i \in 1..Len(s) |-> LowerChar(s[i])]

StrContains(hay, needle) ==
    \E i \in 0..(Len(hay) - Len(needle)) : SubSeq(hay, i + 1, i + Len(needle)) = needle

\* str.replace(old, new) for a non-empty old: leftmost, non-overlapping.
RECURSIVE StrReplace(_, _, _)
StrReplace(s, old, new) ==
    IF Len(s) < Len(old) THEN s
    ELSE IF SubSeq(s, 1, Len(old)) = old
         THEN new \o StrReplace(SubSeq(s, Len(old) + 1, Len(s)), old, new)
         ELSE <<Head(s)>> \o StrReplace(Tail(s), old, new)

\* k.lower().replace(" ", "_")
NormalizeName(k) == StrReplace(StrLower(k), <<" ">>, <<"_">>)

\* f"{{{var_name}}}"
Placeholder(var_name) == <<"{">> \o var_name \o <<"}">>

(***************************************************************************)
(* Python dicts are sequences of [key, val] entries in insertion order.    *)
(***************************************************************************)
DictKeys(d) == [i \in 1..Len(d) |-> d[i].key]

DictHas(d, k) == \E i \in 1..Len(d) : d[i].key = k

DictGet(d, k) == d[CHOOSE i \in 1..Len(d) : d[i].key = k].val

\* d[k] = v: an existing key keeps its position.
DictSet(d, k, v) ==
    IF DictHas(d, k)
    THEN [i \in 1..Len(d) |-> IF d[i].key = k THEN [key |-> k, val |-> v] ELSE d[i]]
    ELSE Append(d, [key |-> k, val |-> v])

(***************************************************************************)
(* _expand_query_templates                                                 *)
(***************************************************************************)
\* A variable combination: None, or a tuple of values.
NoneCombo == [none |-> TRUE, vals |-> <<>>]
Combo(vals) == [none |-> FALSE, vals |-> vals]

\* {k.lower().replace(" ", "_"): v for k, v in variables.items()}
RECURSIVE NormalizedVariableNames(_)
NormalizedVariableNames(variables) ==
    IF variables = <<>> THEN <<>>
    ELSE LET n == Len(variables)
             e == variables[n]
         IN  DictSet(NormalizedVariableNames(SubSeq(variables, 1, n - 1)),
                     NormalizeName(e.key), e.val)

\* if f"{{{var_name}}}" in template.lower()
HasPlaceholder(template, var_name) ==
    StrContains(StrLower(template), Placeholder(var_name))

\* placeholders: the set of normalized names whose placeholder is found.
Placeholders(template, normalized) ==
    {name \in Range(DictKeys(normalized)) : HasPlaceholder(template, name)}

\* list(placeholders): the iteration order of a set of str depends on the
\* per-process string hash seed; `order` is the order this process gives.
ListOfSet(S, order) == SelectSeq(order, LAMBDA name : name \in S)

\* itertools.product(*var_values): the rightmost list varies fastest.
ProductFirstOnly(var_values) ==
    IF \E i \in 1..Len(var_values) : var_values[i] = <<>> THEN <<>>
    ELSE << [i \in 1..Len(var_values) |-> var_values[i][1]] >>
RECURSIVE Product(_)
Product(var_values) ==
    IF var_values = <<>> THEN << <<>> >>
    ELSE LET rest == Product(Tail(var_values))
             first == Head(var_values)
         IN  Flatten([i \in 1..Len(first) |->
                        [j \in 1..Len(rest) |-> <<first[i]>> \o rest[j]]])

\* for var_name, value in zip(var_names, combo): query = query.replace(...)
RECURSIVE Substitute(_, _, _)
Substitute(query, var_names, combo) ==
    IF var_names = <<>> \/ combo = <<>> THEN query
    ELSE Substitute(StrReplace(query, Placeholder(Head(var_names)), Head(combo)),
                    Tail(var_names), Tail(combo))

\* The entries one template contributes (one iteration of the template loop).
ExpandTemplate(template, normalized, order) ==
    LET placeholders == Placeholders(template, normalized)
        var_names == ListOfSet(placeholders, order)
        var_values == [i \in 1..Len(var_names) |-> DictGet(normalized, var_names[i])]
        combinations == Product(var_values)
    IN  IF placeholders = {}
        THEN <<[query |-> template, combo |-> NoneCombo]>>
        ELSE [c \in 1..Len(combinations) |->
                [query |-> Substitute(template, var_names, combinations[c]),
                 combo |-> Combo(combinations[c])]]

\* Returns (expanded_queries, variable_value_combinations).
ExpandQueryTemplates(templates, variables, order) ==
    IF variables = <<>>
    THEN [queries |-> templates, combos |-> [i \in 1..Len(templates) |-> NoneCombo]]
    ELSE LET normalized == NormalizedVariableNames(variables)
             entries == Flatten([t \in 1..Len(templates) |->
                                   ExpandTemplate(templates[t], normalized, order)])
         IN  [queries |-> [i \in 1..Len(entries) |-> entries[i].query],
              combos |-> [i \in 1..Len(entries) |-> entries[i].combo]]

\* The orders list(placeholders) can take for the names of `variables`.
SetOrders(variables) == Orderings(Range(DictKeys(NormalizedVariableNames(variables))))

(***************************************************************************)
(* Inputs of the template expander.                                        *)
(***************************************************************************)
TemplatePool ==
    { <<"x">>,
      <<"{", "A", "}", "x">>,
      <<"{", "a", "}", "{", "b", "_", "c", "}">>,
      <<"{", "b", "_", "c", "}", "{", "a", "}", "{", "a", "}">> }

ValuePool == { <<"1">>, <<"2">> }

NamePool == << <<"a">>, <<"B", " ", "c">> >>

ValueLists == SeqsUpTo(ValuePool, MaxValues)

\* Dicts over a subsequence of NamePool (keys distinct after normalization);
\* the expander does not depend on the order of the keys.
VariableDicts ==
    LET withA == {<<[key |-> NamePool[1], val |-> v]>> : v \in ValueLists} \cup {<<>>}
        withB == {<<[key |-> NamePool[2], val |-> v]>> : v \in ValueLists} \cup {<<>>}
    IN  {x \o y : x \in withA, y \in withB}

(***************************************************************************)
(* Calendar arithmetic of datetime: strptime, (end - start).days,          *)
(* timedelta and strftime.  A datetime is its proleptic Gregorian ordinal. *)
(***************************************************************************)
NoDate == <<0, 0, 0>>

IsLeap(y) == (y % 4 = 0 /\ y % 100 # 0) \/ y % 400 = 0

DaysInMonth(y, m) ==
    IF m = 2 THEN (IF IsLeap(y) THEN 29 ELSE 28)
    ELSE IF m \in {4, 6, 9, 11} THEN 30 ELSE 31

DaysBeforeYear(y) ==
    LET p == y - 1 IN p * 365 + (p \div 4) - (p \div 100) + (p \div 400)

DaysBeforeMonth(y, m) ==
    <<0, 31, 59, 90, 120, 151, 181, 212, 243, 273, 304, 334>>[m]
        + (IF m > 2 /\ IsLeap(y) THEN 1 ELSE 0)

ValidDate(d) ==
    /\ d[1] \in 1..9999
    /\ d[2] \in 1..12
    /\ d[3] \in 1..DaysInMonth(d[1], d[2])

ToOrdinal(d) == DaysBeforeYear(d[1]) + DaysBeforeMonth(d[1], d[2]) + d[3]

FromOrdinal(n) ==
    LET y == CHOOSE c \in (n \div 366)..((n \div 365) + 1) :
                 DaysBeforeYear(c) < n /\ n <= DaysBeforeYear(c + 1)
        r == n - DaysBeforeYear(y)
        m == CHOOSE c \in 1..12 :
                 DaysBeforeMonth(y, c) < r /\ r <= DaysBeforeMonth(y, c) + DaysInMonth(y, c)
    IN  <<y, m, r - DaysBeforeMonth(y, m)>>

\* datetime.strptime(s, "%Y-%m-%d"): TypeError on None, ValueError on a
\* string that is no calendar date.
StrptimeError(d) ==
    IF d = NoDate THEN "TypeError" ELSE IF ValidDate(d) THEN "none" ELSE "ValueError"

(***************************************************************************)
(* _get_date_chunks and _get_date_chunks_for_retrieval                     *)
(***************************************************************************)
max_days_per_chunk == 366

Max(a, b) == IF a >= b THEN a ELSE b

\* num_chunks = max(1, (total_days + max_days_per_chunk - 1) // max_days_per_chunk)
NumChunksTruncating(total_days) == Max(1, (total_days \div max_days_per_chunk) + 1)
NumChunks(total_days) ==
    Max(1, (total_days + max_days_per_chunk - 1) \div max_days_per_chunk)

\* days_per_chunk = total_days // num_chunks
DaysPerChunk(total_days, num_chunks) == total_days \div num_chunks

\* current_start = chunk_end + timedelta(days=1)
NextChunkStartOverlapping(chunk_end) == chunk_end
NextChunkStart(chunk_end) == chunk_end + 1

\* The loop `for i in range(num_chunks)` from iteration i on; start and end
\* are ordinals.
RECURSIVE ChunkLoop(_, _, _, _, _)
ChunkLoop(i, current_start, end, num_chunks, days_per_chunk) ==
    IF i >= num_chunks THEN <<>>
    ELSE LET chunk_end == IF i = num_chunks - 1 THEN end
                          ELSE current_start + (days_per_chunk - 1)
         IN  <<[start |-> FromOrdinal(current_start), end |-> FromOrdinal(chunk_end)]>>
             \o ChunkLoop(i + 1, NextChunkStart(chunk_end), end, num_chunks,
                          days_per_chunk)

\* The outcome of a call: the exception raised ("none": it returned) and
\* the list returned.
GetDateChunks(start_date, end_date) ==
    IF StrptimeError(start_date) # "none"
    THEN [error |-> StrptimeError(start_date), chunks |-> <<>>]
    ELSE IF StrptimeError(end_date) # "none"
    THEN [error |-> StrptimeError(end_date), chunks |-> <<>>]
    ELSE LET start == ToOrdinal(start_date)
             end == ToOrdinal(end_date)
             total_days == (end - start) + 1
             num_chunks == NumChunks(total_days)
             days_per_chunk == DaysPerChunk(total_days, num_chunks)
         IN  [error |-> "none",
              chunks |-> ChunkLoop(0, start, end, num_chunks, days_per_chunk)]

GetDateChunksForRetrieval(start_date, end_date, time_chunking) ==
    IF time_chunking
    THEN GetDateChunks(start_date, end_date)
    ELSE [error |-> "none", chunks |-> <<[start |-> start_date, end |-> end_date]>>]

(***************************************************************************)
(* Inputs of the date chunker.                                             *)
(***************************************************************************)
StartDatePool ==
    { <<2019, 12, 31>>, <<2020, 1, 1>>, <<2020, 3, 1>>, <<2021, 2, 29>>, NoDate }

EndDatePool ==
    {FromOrdinal(ToOrdinal(<<2019, 12, 1>>) + k) : k \in 0..MaxSpan}
        \cup { <<2020, 2, 30>>, NoDate }

(***************************************************************************)
(* Initial values of the three machines; each specification starts one of  *)
(* them on its inputs and leaves the others idle.                          *)
(***************************************************************************)
ExIdle ==
    /\ exTemplates = <<>>
    /\ exVariables = <<>>
    /\ exPc = "idle"
    /\ exResult = [queries |-> <<>>, combos |-> <<>>]
    /\ exOrder = <<>>

DcIdle ==
    /\ dcStart = NoDate
    /\ dcEnd = NoDate
    /\ dcChunking = FALSE
    /\ dcPc = "idle"
    /\ dcResult = [error |-> "none", chunks |-> <<>>]

(***************************************************************************)
(* The template expander called on its own.                                *)
(***************************************************************************)
ExInit ==
    /\ exTemplates \in SeqsUpTo(TemplatePool, MaxTemplates)
    /\ exVariables \in VariableDicts
    /\ exPc = "input"
    /\ exResult = [queries |-> <<>>, combos |-> <<>>]
    /\ exOrder = <<>>

CallExpandQueryTemplates ==
    /\ exPc = "input"
    /\ \E order \in SetOrders(exVariables) :
        /\ exOrder' = order
        /\ exResult' = ExpandQueryTemplates(exTemplates, exVariables, order)
    /\ exPc' = "returned"
    /\ UNCHANGED <<exTemplates, exVariables>>
    /\ UNCHANGED <<dcVars, gVars, xVars, inVars, responses, sVars, bVars, tVars>>

(***************************************************************************)
(* The date chunker called on its own.                                     *)
(***************************************************************************)
DcInit ==
    /\ dcStart \in StartDatePool
    /\ dcEnd \in EndDatePool
    /\ dcChunking \in BOOLEAN
    /\ dcPc = "input"
    /\ dcResult = [error |-> "none", chunks |-> <<>>]

CallGetDateChunksForRetrieval ==
    /\ dcPc = "input"
    /\ dcResult' = GetDateChunksForRetrieval(dcStart, dcEnd, dcChunking)
    /\ dcPc' = IF dcResult'.error = "none" THEN "returned" ELSE "raised"
    /\ UNCHANGED <<dcStart, dcEnd, dcChunking>>
    /\ UNCHANGED <<exVars, gVars, xVars, inVars, responses, sVars, bVars, tVars>>

(***************************************************************************)
(* data_extraction.py: markdown link removal and grounding verification.   *)
(* A page and a quote are sequences of characters; "\n" is the newline.    *)
(***************************************************************************)
\* str.isalnum for the characters of the model
AlnumChars == {"a", "b", "A", "B", "1", "2"}
IsAlnumOrPercent(c) == c \in AlnumChars \cup {"%"}
IsAlnum(c) == c \in AlnumChars

\* \s of the regular expressions, for the characters of the model
IsSpace(c) == c \in {" ", "\n"}

\* The first index i >= from with s[i] = ch, or 0.
FirstIndexFrom(s, from, ch) ==
    IF \E i \in from..Len(s) : s[i] = ch
    THEN CHOOSE i \in from..Len(s) : s[i] = ch /\ \A j \in from..(i - 1) : s[j] # ch
    ELSE 0

NoMatch == [end |-> 0, repl |-> <<>>]

\* A bracketed run at i: open, then [^close]+ (or * when may_be_empty),
\* then close.  A class that excludes its terminator stops exactly at the
\* first terminator, so the run is determined.  Returns the index of the
\* closing character, or 0.
RunClose(s, i, open, close, may_be_empty) ==
    IF i >= 1 /\ i <= Len(s) /\ s[i] = open
    THEN LET j == FirstIndexFrom(s, i + 1, close)
         IN  IF j > i + 1 \/ (may_be_empty /\ j = i + 1) THEN j ELSE 0
    ELSE 0

\* \[([^\]]+)\]\([^)]+\)  replaced by \1
InlineLinkAt(s, i) ==
    LET j == RunClose(s, i, "[", "]", FALSE)
        m == IF j > 0 THEN RunClose(s, j + 1, "(", ")", FALSE) ELSE 0
    IN  IF m > 0 THEN [end |-> m, repl |-> SubSeq(s, i + 1, j - 1)] ELSE NoMatch

\* \[([^\]]+)\]\[[^\]]+\]  replaced by \1
ReferenceLinkAt(s, i) ==
    LET j == RunClose(s, i, "[", "]", FALSE)
        m == IF j > 0 THEN RunClose(s, j + 1, "[", "]", FALSE) ELSE 0
    IN  IF m > 0 THEN [end |-> m, repl |-> SubSeq(s, i + 1, j - 1)] ELSE NoMatch

\* The end of the greedy \s* starting at i: the last index of the run of
\* whitespace, i - 1 when there is none.
RECURSIVE SpacesEnd(_, _)
SpacesEnd(s, i) ==
    IF i <= Len(s) /\ IsSpace(s[i]) THEN SpacesEnd(s, i + 1) ELSE i - 1

\* The end of the greedy .* starting at i: up to the end of the line.
LineEnd(s, i) ==
    LET n == FirstIndexFrom(s, i, "\n") IN IF n = 0 THEN Len(s) ELSE n - 1

\* ^\[[^\]]+\]:\s*.*$  (MULTILINE) replaced by the empty string
ReferenceDefinitionAt(s, i) ==
    LET at_line_start == i = 1 \/ (i > 1 /\ i <= Len(s) /\ s[i - 1] = "\n")
        j == IF at_line_start THEN RunClose(s, i, "[", "]", FALSE) ELSE 0
    IN  IF j > 0 /\ j + 1 <= Len(s) /\ s[j + 1] = ":"
        THEN [end |-> LineEnd(s, SpacesEnd(s, j + 2) + 1), repl |-> <<>>]
        ELSE NoMatch

\* !\[[^\]]*\]\([^)]+\)  replaced by the empty string
ImageAt(s, i) ==
    LET j == IF i >= 1 /\ i <= Len(s) /\ s[i] = "!"
             THEN RunClose(s, i + 1, "[", "]", TRUE) ELSE 0
        m == IF j > 0 THEN RunClose(s, j + 1, "(", ")", FALSE) ELSE 0
    IN  IF m > 0 THEN [end |-> m, repl |-> <<>>] ELSE NoMatch

\* \[\]\([^)]+\)  replaced by the empty string
EmptyLinkAt(s, i) ==
    LET m == IF i >= 1 /\ i + 1 <= Len(s) /\ s[i] = "[" /\ s[i + 1] = "]"
             THEN RunClose(s, i + 2, "(", ")", FALSE) ELSE 0
    IN  IF m > 0 THEN [end |-> m, repl |-> <<>>] ELSE NoMatch

MatchAt(pattern, s, i) ==
    CASE pattern = "inline" -> InlineLinkAt(s, i)
      [] pattern = "reference" -> ReferenceLinkAt(s, i)
      [] pattern = "definition" -> ReferenceDefinitionAt(s, i)
      [] pattern = "image" -> ImageAt(s, i)
      [] pattern = "empty" -> EmptyLinkAt(s, i)

\* re.sub: the leftmost match is replaced, the scan resumes after it, and
\* the replacement is not scanned again.
RECURSIVE ReSubFrom(_, _, _)
ReSubFrom(pattern, s, i) ==
    IF i > Len(s) THEN <<>>
    ELSE LET m == MatchAt(pattern, s, i)
         IN  IF m.end > 0
             THEN m.repl \o ReSubFrom(pattern, s, m.end + 1)
             ELSE <<s[i]>> \o ReSubFrom(pattern, s, i + 1)

ReSub(pattern, s) == ReSubFrom(pattern, s, 1)

RemoveMarkdownLinks(text) ==
    ReSub("empty", ReSub("image", ReSub("definition",
        ReSub("reference", ReSub("inline", text)))))

\* "".join(c for c in text if c.isalnum())
AlnumOnlyKeepAll(text) == text
AlnumOnly(text) == SelectSeq(text, IsAlnum)

\* datapoint.get("grounding_quote"): None when the key is missing
NoQuote == [present |-> FALSE, text |-> <<>>]
Quote(text) == [present |-> TRUE, text |-> text]

NoText == [none |-> TRUE, text |-> <<>>]
Text(text) == [none |-> FALSE, text |-> text]

\* _check_grounding(datapoint, webpage_markdown)
CheckGrounding(grounding_quote, webpage_markdown) ==
    IF ~grounding_quote.present \/ grounding_quote.text = <<>>
    THEN [grounded |-> FALSE, text |-> NoText]
    ELSE LET grounding == AlnumOnly(grounding_quote.text)
             markdown == AlnumOnly(RemoveMarkdownLinks(webpage_markdown))
         IN  [grounded |-> StrContains(markdown, grounding), text |-> Text(markdown)]

\* Pages are built from these fragments.
FragmentPool ==
    << <<"a">>, <<"A">>, <<"1">>, <<" ">>, <<"%">>, <<"[">>,
       <<"[", "a", "]", "(", "b", ")">>,
       <<"[", "a", "]", "[", "b", "]">>,
       <<"!", "[", "A", "]", "(", "b", ")">>,
       <<"\n", "[", "a", "]", ":", " ", "b">> >>

PagePool ==
    { Flatten([i \in 1..Len(f) |-> FragmentPool[f[i]]]) :
        f \in SeqsUpTo(1..Len(FragmentPool), MaxFragments) }

QuotePool ==
    { NoQuote, Quote(<<>>), Quote(<<"a">>), Quote(<<"A">>), Quote(<<"%">>),
      Quote(<<"a", " ", "1">>), Quote(<<"a", "%", "a">>), Quote(<<"A", "a">>),
      Quote(<<"[", "a", "]", "(", "b", ")">>) }

GIdle ==
    /\ gQuote = NoQuote
    /\ gPage = <<>>
    /\ gPc = "idle"
    /\ gResult = [grounded |-> FALSE, text |-> NoText]
    /\ gStripped = <<>>

GInit ==
    /\ gQuote \in QuotePool
    /\ gPage \in PagePool
    /\ gPc = "ready"
    /\ gResult = [grounded |-> FALSE, text |-> NoText]
    /\ gStripped = <<>>

CallCheckGrounding ==
    /\ gPc = "ready"
    /\ gResult' = CheckGrounding(gQuote, gPage)
    /\ gPc' = "done"
    /\ UNCHANGED <<gQuote, gPage, gStripped>>
    /\ UNCHANGED <<exVars, dcVars, xVars, inVars, responses, sVars, bVars, tVars>>

\* Pages for _remove_markdown_links alone: the fragments above, the tail of
\* a link, and an image without alt text.
StripFragmentPool ==
    FragmentPool \o << <<"]", "(", "b", ")">>, <<"!", "[", "]", "(", "b", ")">> >>

StripPagePool ==
    { Flatten([i \in 1..Len(f) |-> StripFragmentPool[f[i]]]) :
        f \in SeqsUpTo(1..Len(StripFragmentPool), MaxFragments) }

StripInit ==
    /\ gQuote = NoQuote
    /\ gPage \in StripPagePool
    /\ gPc = "idle"
    /\ gResult = [grounded |-> FALSE, text |-> NoText]
    /\ gStripped = <<>>

\* _remove_markdown_links(text), called on the page and then on what the
\* call before returned.
CallRemoveMarkdownLinks ==
    /\ gPc = "idle"
    /\ Len(gStripped) < MaxStrips
    /\ gStripped' = Append(gStripped,
           RemoveMarkdownLinks(IF gStripped = <<>> THEN gPage ELSE gStripped[Len(gStripped)]))
    /\ UNCHANGED <<gQuote, gPage, gPc, gResult>>
    /\ UNCHANGED <<exVars, dcVars, xVars, inVars, responses, sVars, bVars, tVars>>

(***************************************************************************)
(* data_extraction.py: extract_data and extract_data_streaming.            *)
(***************************************************************************)
\* urllib.parse.quote: letters, digits and "_.-~/" are kept, every other
\* character becomes "%" and the two hexadecimal digits of its byte.
SafeChars == AlnumChars \cup {"_", ".", "-", "~", "/"}

HexOf(c) ==
    CASE c = " " -> <<"2", "0">>
      [] c = "!" -> <<"2", "1">>
      [] c = "%" -> <<"2", "5">>
      [] c = "(" -> <<"2", "8">>
      [] c = ")" -> <<"2", "9">>
      [] c = ":" -> <<"3", "A">>
      [] c = "[" -> <<"5", "B">>
      [] c = "]" -> <<"5", "D">>
      [] c = "\n" -> <<"0", "A">>

QuoteCharVerbatim(c) == <<c>>
QuoteChar(c) == IF c \in SafeChars THEN <<c>> ELSE <<"%">> \o HexOf(c)

UrlQuote(text) == Flatten([i \in 1..Len(text) |-> QuoteChar(text[i])])

\* "#:~:text="
TextFragment == <<"#", ":", "~", ":", "t", "e", "x", "t", "=">>

\* ".pdf" in url
IsPdf(url) == StrContains(url, <<".", "p", "d", "f">>)

\* One element of the extracted list.  error is "missing" when the key is
\* absent, "falsy" when it is None or empty, "some" when it holds a message.
Datapoint(error, grounding_quote) == [error |-> error, grounding_quote |-> grounding_quote]

Emitted(grounding_quote, is_grounded, source) ==
    [kind |-> "datapoint", grounding_quote |-> grounding_quote,
     is_grounded |-> is_grounded, source |-> source]

UrlDone(url) == [kind |-> "url_done", url |-> url]

\* if not datapoint.get("error"): the datapoints the loop body handles.
Considered(data) == SelectSeq(data, LAMBDA datapoint : datapoint.error # "some")

\* datapoint.pop("error") raises KeyError for the first handled datapoint
\* that has no "error" key; its index, or one past the end.
FirstWithoutErrorKey(considered) ==
    IF \E i \in 1..Len(considered) : considered[i].error = "missing"
    THEN CHOOSE i \in 1..Len(considered) :
            /\ considered[i].error = "missing"
            /\ \A j \in 1..(i - 1) : considered[j].error # "missing"
    ELSE Len(considered) + 1

\* The datapoint as it is emitted: is_grounded and source set, error popped.
EmittedOf(url, datapoint, markdown) ==
    IF CheckGrounding(datapoint.grounding_quote, markdown).grounded
    THEN Emitted(datapoint.grounding_quote, TRUE,
                 url \o TextFragment \o UrlQuote(datapoint.grounding_quote.text))
    ELSE Emitted(datapoint.grounding_quote, FALSE, url)

\* `for datapoint in data`, up to the first exception: the datapoints
\* emitted, the number of _check_grounding calls, and the exception.
ProcessDatapoints(url, data, markdown) ==
    LET considered == Considered(data)
        stop == FirstWithoutErrorKey(considered)
    IN  [out |-> <<>> \o [i \in 1..(stop - 1) |-> EmittedOf(url, considered[i], markdown)],
         checks |-> IF stop <= Len(considered) THEN stop ELSE Len(considered),
         error |-> IF stop <= Len(considered) THEN "KeyError" ELSE "none"]

\* What crawler.arun returns: nothing usable, content that is not JSON, or
\* a JSON list of datapoints with the page's markdown.
NoContent == [content |-> "none", data |-> <<>>, markdown |-> <<>>]
NotJson == [content |-> "invalid", data |-> <<>>, markdown |-> <<>>]
Json(data, markdown) == [content |-> "json", data |-> data, markdown |-> markdown]

CrawlPool ==
    { NoContent, NotJson,
      Json(<<>>, <<"a">>),
      Json(<<Datapoint("falsy", Quote(<<"a", " ", "1">>))>>, <<"a", "%", "1">>),
      Json(<<Datapoint("falsy", Quote(<<"b">>))>>, <<"a", "%", "1">>),
      Json(<<Datapoint("some", NoQuote), Datapoint("falsy", Quote(<<"a">>))>>,
           <<"[", "a", "]", "(", "b", ")">>),
      Json(<<Datapoint("falsy", Quote(<<"a">>)), Datapoint("missing", Quote(<<"a">>))>>,
           <<"a">>),
      Json(<<Datapoint("falsy", NoQuote)>>, <<"a">>) }

\* if result and result.extracted_content: json.loads and the datapoint
\* loop; nothing is emitted for a page without content or without JSON.
PageOutcomeDecodeErrorRaised(url, result) ==
    IF result.content = "json"
    THEN ProcessDatapoints(url, result.data, result.markdown)
    ELSE [out |-> <<>>, checks |-> 0,
          error |-> IF result.content = "invalid" THEN "JSONDecodeError" ELSE "none"]
PageOutcome(url, result) ==
    IF result.content = "json"
    THEN ProcessDatapoints(url, result.data, result.markdown)
    ELSE [out |-> <<>>, checks |-> 0, error |-> "none"]

UrlPool == { <<"u">>, <<"v">>, <<"w", ".", "p", "d", "f">> }

XIdle ==
    /\ xMode = "idle"
    /\ xUrls = <<>>
    /\ xHandlePdfs = FALSE
    /\ xOcr = FALSE
    /\ xPc = "idle"
    /\ xIdx = 0
    /\ xOut = <<>>
    /\ xFrom = <<>>
    /\ xLog = <<>>
    /\ xChecks = 0
    /\ xError = "none"

XInit ==
    /\ xMode \in {"batch", "stream"}
    /\ xUrls \in SeqsUpTo(UrlPool, MaxUrls)
    /\ xHandlePdfs \in BOOLEAN
    /\ xOcr \in BOOLEAN
    /\ xPc = "running"
    /\ xIdx = 1
    /\ xOut = <<>>
    /\ xFrom = <<>>
    /\ xLog = <<>>
    /\ xChecks = 0
    /\ xError = "none"

\* The items one iteration adds, each with the index of its URL.
FromHere(items) == [i \in 1..Len(items) |-> xIdx]

\* One iteration of `for url in urls` of extract_data.
ExtractUrl ==
    /\ xMode = "batch"
    /\ xPc = "running"
    /\ xIdx <= Len(xUrls)
    /\ LET url == xUrls[xIdx]
       IN  IF IsPdf(url) /\ ~xHandlePdfs
           THEN /\ xIdx' = xIdx + 1
                /\ UNCHANGED <<xPc, xOut, xFrom, xLog, xChecks, xError>>
           ELSE IF IsPdf(url) /\ ~xOcr
           THEN /\ xPc' = "raised"
                /\ xError' = "ValueError"
                /\ UNCHANGED <<xIdx, xOut, xFrom, xLog, xChecks>>
           ELSE \E result \in CrawlPool : \E r \in {PageOutcome(url, result)} :
                       /\ xLog' = Append(xLog, [url |-> url, raw |-> IsPdf(url), result |-> result])
                       /\ xOut' = xOut \o r.out
                       /\ xFrom' = xFrom \o FromHere(r.out)
                       /\ xChecks' = xChecks + r.checks
                       /\ xError' = r.error
                       /\ IF r.error = "none"
                          THEN xIdx' = xIdx + 1 /\ xPc' = xPc
                          ELSE xIdx' = xIdx /\ xPc' = "raised"
    /\ UNCHANGED <<xMode, xUrls, xHandlePdfs, xOcr>>
    /\ UNCHANGED <<exVars, dcVars, gVars, inVars, responses, sVars, bVars, tVars>>

\* return extracted_data
ExtractReturn ==
    /\ xMode = "batch"
    /\ xPc = "running"
    /\ xIdx > Len(xUrls)
    /\ xPc' = "done"
    /\ UNCHANGED <<xMode, xUrls, xHandlePdfs, xOcr, xIdx, xOut, xFrom, xLog, xChecks, xError>>
    /\ UNCHANGED <<exVars, dcVars, gVars, inVars, responses, sVars, bVars, tVars>>

\* What one iteration yields for a crawled page: its datapoints, then the
\* marker of line 284 or 286 unless an exception ended the generator.
YieldedForUnmarked(url, r) == r.out
YieldedFor(url, r) == IF r.error = "none" THEN Append(r.out, UrlDone(url)) ELSE r.out

\* One iteration of `for url in urls` of extract_data_streaming, with the
\* items it yields in order.
StreamExtractUrl ==
    /\ xMode = "stream"
    /\ xPc = "running"
    /\ xIdx <= Len(xUrls)
    /\ LET url == xUrls[xIdx]
       IN  IF IsPdf(url) /\ ~xHandlePdfs
           THEN /\ xIdx' = xIdx + 1
                /\ xOut' = Append(xOut, UrlDone(url))
                /\ xFrom' = Append(xFrom, xIdx)
                /\ UNCHANGED <<xPc, xLog, xChecks, xError>>
           ELSE IF IsPdf(url) /\ ~xOcr
           THEN /\ xPc' = "raised"
                /\ xError' = "ValueError"
                /\ UNCHANGED <<xIdx, xOut, xFrom, xLog, xChecks>>
           ELSE \E result \in CrawlPool : \E r \in {PageOutcome(url, result)} :
                   \E items \in {YieldedFor(url, r)} :
                       /\ xLog' = Append(xLog, [url |-> url, raw |-> IsPdf(url), result |-> result])
                       /\ xOut' = xOut \o items
                       /\ xFrom' = xFrom \o FromHere(items)
                       /\ xChecks' = xChecks + r.checks
                       /\ xError' = r.error
                       /\ IF r.error = "none"
                          THEN xIdx' = xIdx + 1 /\ xPc' = xPc
                          ELSE xIdx' = xIdx /\ xPc' = "raised"
    /\ UNCHANGED <<xMode, xUrls, xHandlePdfs, xOcr>>
    /\ UNCHANGED <<exVars, dcVars, gVars, inVars, responses, sVars, bVars, tVars>>

\* The loop is exhausted: StopAsyncIteration.
StreamExtractFinish ==
    /\ xMode = "stream"
    /\ xPc = "running"
    /\ xIdx > Len(xUrls)
    /\ xPc' = "done"
    /\ UNCHANGED <<xMode, xUrls, xHandlePdfs, xOcr, xIdx, xOut, xFrom, xLog, xChecks, xError>>
    /\ UNCHANGED <<exVars, dcVars, gVars, inVars, responses, sVars, bVars, tVars>>

(***************************************************************************)
(* The search proxy.  A response is a failure (raise_for_status raises) or *)
(* a page of result items; an item is identified by its link.              *)
(***************************************************************************)
Page(items) == [ok |-> TRUE, items |-> items]
FailedResponse == [ok |-> FALSE, items |-> <<>>]

ResponsePool ==
    { Page(<<>>), Page(<<"u1">>), Page(<<"u2">>), Page(<<"u1", "u1">>),
      Page(<<"u1", "u2">>), FailedResponse }

\* The response to the n-th request of an invocation: the one already given
\* to the other interface's n-th request, or a new one.
ResponsesTo(n) == IF n <= Len(responses) THEN {responses[n]} ELSE ResponsePool

Recorded(n, resp) == IF n <= Len(responses) THEN responses ELSE Append(responses, resp)

(***************************************************************************)
(* Request construction shared by _retrieve_bright_data_results and        *)
(* _stream_bright_data_results.                                            *)
(***************************************************************************)
PageSize == 20

\* The text of a date inside the query.
DateText(d) == <<ToString(d[1]), "-", ToString(d[2]), "-", ToString(d[3])>>

\* ' '.join(date_filters)
DateFilters(start_date, end_date) ==
    (IF start_date # NoDate THEN <<"after:">> \o DateText(start_date) ELSE <<>>)
    \o (IF start_date # NoDate /\ end_date # NoDate THEN <<" ">> ELSE <<>>)
    \o (IF end_date # NoDate THEN <<"before:">> \o DateText(end_date) ELSE <<>>)

\* query = f"{query} {' '.join(date_filters)}" when there is a filter
QueryWithFilters(query, chunk) ==
    IF chunk.start # NoDate \/ chunk.end # NoDate
    THEN query \o <<" ">> \o DateFilters(chunk.start, chunk.end)
    ELSE query

\* The loops are nested: query, then date chunk, then page.  The k-th
\* request (k from 0) of an invocation is for:
TotalRequests(queries, chunks, pages) == Len(queries) * Len(chunks) * pages
QueryIndexOf(k, chunks, pages) == (k \div (Len(chunks) * pages)) + 1
ChunkIndexOf(k, chunks, pages) == ((k \div pages) % Len(chunks)) + 1
PageIndexOf(k, pages) == k % pages

\* start = request_num * 20
StartParamFirstPage(request_num) == 0
StartParam(request_num) == request_num * PageSize

\* The country tables of the data directory, as far as the model uses them:
\* country_to_code.json and country_to_mc_sources.json.
NoCountry == "none"
NoCode == "none"
CountryToCode ==
    << [key |-> "France", val |-> "fr"], [key |-> "Spain", val |-> "es"] >>
CountryToMcSources ==
    << [key |-> "France", val |-> <<"f.fr">>],
       [key |-> "Spain", val |-> <<"s.es", "t.es">>] >>

\* get_media_cloud_sources: sources[collection] raises KeyError for a
\* country the table does not have.
GetMediaCloudSources(collection) ==
    IF DictHas(CountryToMcSources, collection)
    THEN [error |-> "none", sources |-> DictGet(CountryToMcSources, collection)]
    ELSE [error |-> "KeyError", sources |-> <<>>]

\* _get_media_cloud_sources_if_needed: None (here the empty list, which is
\* as falsy) when no country is given.
GetMediaCloudSourcesIfNeeded(media_cloud_country) ==
    IF media_cloud_country # NoCountry
    THEN GetMediaCloudSources(media_cloud_country)
    ELSE [error |-> "none", sources |-> <<>>]

\* {value: _get_media_cloud_sources_if_needed(country) for value, country in ...}
VariableValuesMediaCloudSources(name, countries) ==
    IF name # <<>> /\ countries # <<>>
    THEN [i \in 1..Len(countries) |->
            [key |-> countries[i].key,
             val |-> GetMediaCloudSourcesIfNeeded(countries[i].val).sources]]
    ELSE <<>>

\* The first error of the body of the try block before the query loop.
SetupError(dated, media_cloud_country, name, countries) ==
    IF dated.error # "none" THEN dated.error
    ELSE IF GetMediaCloudSourcesIfNeeded(media_cloud_country).error # "none"
    THEN GetMediaCloudSourcesIfNeeded(media_cloud_country).error
    ELSE IF name # <<>> /\ countries # <<>>
            /\ \E i \in 1..Len(countries) :
                   GetMediaCloudSourcesIfNeeded(countries[i].val).error # "none"
    THEN "KeyError"
    ELSE "none"

\* assert not (variable_name_with_assigned_countries
\*             and (media_cloud_country or geolocation_country))
CountryAssignmentConflictGeoOnly(name, media_cloud_country, geolocation_country) ==
    name # <<>> /\ geolocation_country # NoCountry
CountryAssignmentConflict(name, media_cloud_country, geolocation_country) ==
    name # <<>> /\ (media_cloud_country # NoCountry \/ geolocation_country # NoCountry)

\* _get_variable_value_for_country_assignment; None is the empty value.
NoValue == <<>>

\* {k.lower().replace(" ", "_"): k for k in search_query_variables.keys()}
OriginalNames(variables) ==
    NormalizedVariableNames([i \in 1..Len(variables) |->
        [key |-> variables[i].key, val |-> variables[i].key]])

IndexOf(seq, x) == (CHOOSE i \in 1..Len(seq) : seq[i] = x /\ \A j \in 1..(i - 1) : seq[j] # x) - 1

GetVariableValueForCountryAssignment(variable_value_combo, name, variables) ==
    IF variable_value_combo.none \/ variable_value_combo.vals = <<>> \/ variables = <<>>
    THEN NoValue
    ELSE LET normalized_variable_names == OriginalNames(variables)
             target_normalized_name == NormalizeName(name)
         IN  IF ~DictHas(normalized_variable_names, target_normalized_name)
             THEN NoValue
             ELSE LET original_var_name ==
                          DictGet(normalized_variable_names, target_normalized_name)
                      var_index == IndexOf(DictKeys(variables), original_var_name)
                  IN  IF var_index < Len(variable_value_combo.vals)
                      THEN variable_value_combo.vals[var_index + 1]
                      ELSE NoValue

\* variable_value of one iteration of the query loop
VariableValue(variable_value_combo, name, variables) ==
    IF name # <<>> /\ ~variable_value_combo.none /\ variable_value_combo.vals # <<>>
    THEN GetVariableValueForCountryAssignment(variable_value_combo, name, variables)
    ELSE NoValue

CurrentMediaCloudSources(variable_value, media_cloud_sources, value_sources) ==
    IF variable_value # NoValue /\ value_sources # <<>> /\ DictHas(value_sources, variable_value)
    THEN DictGet(value_sources, variable_value)
    ELSE media_cloud_sources

CurrentGeolocationCountry(variable_value, geolocation_country, value_countries) ==
    IF variable_value # NoValue /\ value_countries # <<>>
       /\ DictHas(value_countries, variable_value)
    THEN DictGet(value_countries, variable_value)
    ELSE geolocation_country

\* media_cloud_sources[:num_mc_sites]
num_mc_sites == 50
Truncated(media_cloud_sources) ==
    SubSeq(media_cloud_sources, 1,
           IF Len(media_cloud_sources) < num_mc_sites
           THEN Len(media_cloud_sources) ELSE num_mc_sites)

\* ' OR '.join(f"site:{site}" for site in media_cloud_sources)
RECURSIVE SiteFilters(_)
SiteFilters(sites) ==
    IF sites = <<>> THEN <<>>
    ELSE <<"site:", Head(sites)>>
         \o (IF Tail(sites) = <<>> THEN <<>> ELSE <<" OR ">> \o SiteFilters(Tail(sites)))

\* query = f"{query} {' OR '.join(mc_filters)}" when there are sources
QueryWithSites(query, media_cloud_sources) ==
    IF media_cloud_sources # <<>>
    THEN query \o <<" ">> \o SiteFilters(Truncated(media_cloud_sources))
    ELSE query

\* country_name_to_code.get(geolocation_country)
CountryCode(geolocation_country) ==
    IF DictHas(CountryToCode, geolocation_country)
    THEN DictGet(CountryToCode, geolocation_country)
    ELSE NoCode

\* assert country_code, when a geolocation country is given
CountryCodeMissing(geolocation_country) ==
    geolocation_country # NoCountry /\ CountryCode(geolocation_country) = NoCode

RequestOf(k, queries, chunks, pages, media_cloud_sources, geolocation_country) ==
    [query |-> QueryWithSites(QueryWithFilters(queries[QueryIndexOf(k, chunks, pages)],
                                               chunks[ChunkIndexOf(k, chunks, pages)]),
                              media_cloud_sources),
     start |-> StartParam(PageIndexOf(k, pages)),
     sites |-> Truncated(media_cloud_sources),
     gl |-> IF geolocation_country # NoCountry THEN CountryCode(geolocation_country)
            ELSE NoCode]

\* response.raise_for_status()
RaiseForStatusNever(resp) == "none"
RaiseForStatus(resp) == IF resp.ok THEN "none" ELSE "HTTPError"

\* result_items = results.get("organic", [])
ResultItemsReversed(resp) == [i \in 1..Len(resp.items) |-> resp.items[Len(resp.items) + 1 - i]]
ResultItems(resp) == resp.items

\* The exception a retrieval function raises: "Failed to retrieve webpages"
\* chained from its cause; the assertion before the try block is not wrapped.
NoError == [raised |-> FALSE, wrapped |-> FALSE, cause |-> "none"]
Wrapped(cause) == [raised |-> TRUE, wrapped |-> TRUE, cause |-> cause]
Unwrapped(cause) == [raised |-> TRUE, wrapped |-> FALSE, cause |-> cause]

(***************************************************************************)
(* retrieve_webpages_streaming: a generator driven by its consumer.        *)
(***************************************************************************)
\* if result["link"] not in seen_urls
ShouldYieldProcessWide(link, seen_urls) == link \notin seen_urls \cup bSeen
ShouldYieldAlways(link, seen_urls) == TRUE
ShouldYield(link, seen_urls) == link \notin seen_urls

\* seen_urls.add(result["link"])
RecordSeenForgetful(seen_urls, link) == seen_urls
RecordSeen(seen_urls, link) == seen_urls \cup {link}

\* The body of a generator runs only inside a next() call: between two
\* calls it stays at the yield it reached.
ProducerRunsAhead(pc) == pc \in {"running", "suspended"}
ProducerRuns(pc) == pc = "running"

SIdle ==
    /\ sPc = "idle"
    /\ sError = NoError
    /\ sQueries = <<>>
    /\ sCombos = <<>>
    /\ sChunks = <<>>
    /\ sIssued = 0
    /\ sItems = <<>>
    /\ sSeen = {}
    /\ sYielded = <<>>
    /\ sRequests = <<>>
    /\ sPulls = 0

\* The sources and the country of the requests of the query of request k.
StreamVariableValue(k) ==
    VariableValue(sCombos[QueryIndexOf(k, sChunks, inPages)], inAssignVar, inVariables)
StreamSources(k) ==
    CurrentMediaCloudSources(StreamVariableValue(k),
        GetMediaCloudSourcesIfNeeded(inMcCountry).sources,
        VariableValuesMediaCloudSources(inAssignVar, inValueMc))
StreamCountry(k) ==
    CurrentGeolocationCountry(StreamVariableValue(k), inGeoCountry, inValueGeo)

\* next(generator).  The first call runs the body up to the query loop.
StreamPull ==
    /\ sPc \in {"created", "suspended"}
    /\ sPulls' = sPulls + 1
    /\ IF sPc = "created"
       THEN LET expanded == ExpandQueryTemplates(inTemplates, inVariables, setOrder)
                dated == GetDateChunksForRetrieval(inStart, inEnd, inChunking)
                error == SetupError(dated, inMcCountry, inAssignVar, inValueMc)
            IN  IF CountryAssignmentConflict(inAssignVar, inMcCountry, inGeoCountry)
                THEN /\ sPc' = "raised"
                     /\ sError' = Unwrapped("AssertionError")
                     /\ UNCHANGED <<sQueries, sCombos, sChunks>>
                ELSE IF error # "none"
                THEN /\ sPc' = "raised"
                     /\ sError' = Wrapped(error)
                     /\ UNCHANGED <<sQueries, sCombos, sChunks>>
                ELSE /\ sPc' = "running"
                     /\ sError' = sError
                     /\ sQueries' = expanded.queries
                     /\ sCombos' = expanded.combos
                     /\ sChunks' = dated.chunks
       ELSE /\ sPc' = "running"
            /\ UNCHANGED <<sError, sQueries, sCombos, sChunks>>
    /\ UNCHANGED <<sIssued, sItems, sSeen, sYielded, sRequests>>
    /\ UNCHANGED <<exVars, dcVars, gVars, xVars, inVars, responses, bVars, tVars>>

\* The country lookup that precedes the page loop of a query and chunk,
\* then requests.post(...); response.raise_for_status(); result_items = ...
StreamRequest ==
    /\ ProducerRuns(sPc)
    /\ sItems = <<>>
    /\ sIssued < TotalRequests(sQueries, sChunks, inPages)
    /\ IF PageIndexOf(sIssued, inPages) = 0 /\ CountryCodeMissing(StreamCountry(sIssued))
       THEN /\ sPc' = "raised"
            /\ sError' = Wrapped("AssertionError")
            /\ UNCHANGED <<responses, sRequests, sIssued, sItems>>
       ELSE \E resp \in ResponsesTo(sIssued + 1) :
            /\ responses' = Recorded(sIssued + 1, resp)
            /\ sRequests' = Append(sRequests,
                   RequestOf(sIssued, sQueries, sChunks, inPages,
                             StreamSources(sIssued), StreamCountry(sIssued)))
            /\ sIssued' = sIssued + 1
            /\ IF RaiseForStatus(resp) = "none"
               THEN /\ sItems' = ResultItems(resp)
                    /\ sPc' = "running"
                    /\ sError' = sError
               ELSE /\ sItems' = <<>>
                    /\ sPc' = "raised"
                    /\ sError' = Wrapped(RaiseForStatus(resp))
    /\ UNCHANGED <<sQueries, sCombos, sChunks, sSeen, sYielded, sPulls>>
    /\ UNCHANGED <<exVars, dcVars, gVars, xVars, inVars, bVars, tVars>>

\* One iteration of `for item in result_items` for the page last received.
StreamItem ==
    /\ ProducerRuns(sPc)
    /\ sItems # <<>>
    /\ LET link == Head(sItems)
           k == sIssued - 1
       IN  IF ShouldYield(link, sSeen)
           THEN /\ sSeen' = RecordSeen(sSeen, link)
                /\ sYielded' = Append(sYielded,
                       [combo |-> sCombos[QueryIndexOf(k, sChunks, inPages)],
                        query |-> RequestOf(k, sQueries, sChunks, inPages,
                                            StreamSources(k), StreamCountry(k)).query,
                        link |-> link])
                /\ sPc' = "suspended"
           ELSE UNCHANGED <<sSeen, sYielded, sPc>>
    /\ sItems' = Tail(sItems)
    /\ UNCHANGED <<sError, sQueries, sCombos, sChunks, sIssued, sRequests, sPulls>>
    /\ UNCHANGED <<exVars, dcVars, gVars, xVars, inVars, responses, bVars, tVars>>

\* The loops are exhausted: StopIteration.
StreamFinish ==
    /\ ProducerRuns(sPc)
    /\ sItems = <<>>
    /\ sIssued = TotalRequests(sQueries, sChunks, inPages)
    /\ sPc' = "done"
    /\ UNCHANGED <<sError, sQueries, sCombos, sChunks, sIssued, sItems, sSeen, sYielded,
                   sRequests, sPulls>>
    /\ UNCHANGED <<exVars, dcVars, gVars, xVars, inVars, responses, bVars, tVars>>

(***************************************************************************)
(* retrieve_webpages: the batch interface.                                 *)
(***************************************************************************)
\* unique_results = [r for r in chunk_results if r["link"] not in seen_urls]
UniqueResults(chunk_results, seen_urls) ==
    SelectSeq(chunk_results, LAMBDA link : link \notin seen_urls)

\* seen_urls.update([r["link"] for r in unique_results])
SeenUpdate(seen_urls, unique_results) == seen_urls \cup Range(unique_results)

\* results[variable_value_combo][query] = chunk_results
StoreResults(results, variable_value_combo, query, chunk_results) ==
    DictSet(results, <<variable_value_combo, query>>, chunk_results)

\* What the caller of retrieve_webpages holds: nothing until the function
\* returns its mapping.
NothingReturned == [given |-> FALSE, mapping |-> <<>>]
ReturnedMapping(results) == [given |-> TRUE, mapping |-> results]

\* raise Exception(...) from e: the call ends without a value.
RaisedWithPartialResults(results) == [given |-> TRUE, mapping |-> results]
Raised(results) == NothingReturned

BIdle ==
    /\ bPc = "idle"
    /\ bError = NoError
    /\ bQueries = <<>>
    /\ bCombos = <<>>
    /\ bChunks = <<>>
    /\ bIssued = 0
    /\ bAll = <<>>
    /\ bChunkAcc = <<>>
    /\ bSeen = {}
    /\ bResults = <<>>
    /\ bRequests = <<>>
    /\ bReturned = NothingReturned

\* The call, up to the query loop.
BatchStart ==
    /\ bPc = "created"
    /\ LET expanded == ExpandQueryTemplates(inTemplates, inVariables, setOrder)
           dated == GetDateChunksForRetrieval(inStart, inEnd, inChunking)
           error == SetupError(dated, inMcCountry, <<>>, <<>>)
       IN  IF error # "none"
           THEN /\ bPc' = "raised"
                /\ bError' = Wrapped(error)
                /\ bReturned' = Raised(bResults)
                /\ UNCHANGED <<bQueries, bCombos, bChunks>>
           ELSE /\ bPc' = "running"
                /\ bError' = bError
                /\ bReturned' = bReturned
                /\ bQueries' = expanded.queries
                /\ bCombos' = expanded.combos
                /\ bChunks' = dated.chunks
    /\ UNCHANGED <<bIssued, bAll, bChunkAcc, bSeen, bResults, bRequests>>
    /\ UNCHANGED <<exVars, dcVars, gVars, xVars, inVars, responses, sVars, tVars>>

\* The batch invocation made once the streaming one has ended; it is given
\* the same responses.
BatchCall ==
    /\ sPc \in {"done", "raised"}
    /\ BatchStart

\* One page request, and what follows it before the next request: after a
\* chunk's last page the chunk's results are filtered against seen_urls, and
\* after a query's last chunk the query's results are stored.
BatchRequest ==
    /\ bPc = "running"
    /\ bIssued < TotalRequests(bQueries, bChunks, inPages)
    /\ IF PageIndexOf(bIssued, inPages) = 0 /\ CountryCodeMissing(inGeoCountry)
       THEN /\ bPc' = "raised"
            /\ bError' = Wrapped("AssertionError")
            /\ bReturned' = Raised(bResults)
            /\ UNCHANGED <<responses, bRequests, bIssued, bAll, bChunkAcc, bSeen, bResults>>
       ELSE \E resp \in ResponsesTo(bIssued + 1) :
        LET k == bIssued
            q == QueryIndexOf(k, bChunks, inPages)
            lastPage == PageIndexOf(k, inPages) = inPages - 1
            lastChunk == ChunkIndexOf(k, bChunks, inPages) = Len(bChunks)
            all_results == bAll \o ResultItems(resp)
            unique_results == UniqueResults(all_results, bSeen)
            all_chunk_results == bChunkAcc \o unique_results
        IN  /\ responses' = Recorded(k + 1, resp)
            /\ bRequests' = Append(bRequests,
                   RequestOf(k, bQueries, bChunks, inPages,
                             GetMediaCloudSourcesIfNeeded(inMcCountry).sources,
                             inGeoCountry))
            /\ bIssued' = k + 1
            /\ IF RaiseForStatus(resp) # "none"
               THEN /\ bPc' = "raised"
                    /\ bError' = Wrapped(RaiseForStatus(resp))
                    /\ bReturned' = Raised(bResults)
                    /\ UNCHANGED <<bAll, bChunkAcc, bSeen, bResults>>
               ELSE /\ UNCHANGED <<bPc, bError, bReturned>>
                    /\ IF ~lastPage
                       THEN /\ bAll' = all_results
                            /\ UNCHANGED <<bChunkAcc, bSeen, bResults>>
                       ELSE /\ bAll' = <<>>
                            /\ bSeen' = SeenUpdate(bSeen, unique_results)
                            /\ IF ~lastChunk
                               THEN /\ bChunkAcc' = all_chunk_results
                                    /\ UNCHANGED bResults
                               ELSE /\ bChunkAcc' = <<>>
                                    /\ bResults' = StoreResults(bResults, bCombos[q],
                                                       bQueries[q], all_chunk_results)
    /\ UNCHANGED <<bQueries, bCombos, bChunks>>
    /\ UNCHANGED <<exVars, dcVars, gVars, xVars, inVars, sVars, tVars>>

\* return results
BatchReturn ==
    /\ bPc = "running"
    /\ bIssued = TotalRequests(bQueries, bChunks, inPages)
    /\ bPc' = "done"
    /\ bReturned' = ReturnedMapping(bResults)
    /\ UNCHANGED <<bError, bQueries, bCombos, bChunks, bIssued, bAll, bChunkAcc, bSeen,
                   bResults, bRequests>>
    /\ UNCHANGED <<exVars, dcVars, gVars, xVars, inVars, responses, sVars, tVars>>

(***************************************************************************)
(* Retrieval scenarios.                                                    *)
(***************************************************************************)
RetrievalTemplatePool == { <<"x">>, <<"{", "a", "}">> }

RetrievalVariablePool == { <<>>, <<[key |-> <<"a">>, val |-> << <<"1">>, <<"2">> >>]>> }

\* start_date, end_date, time_chunking
RetrievalDatePool ==
    { <<NoDate, NoDate, FALSE>>,
      <<<<2020, 1, 1>>, <<2020, 1, 10>>, FALSE>>,
      <<<<2020, 1, 1>>, <<2021, 2, 3>>, TRUE>>,
      <<<<2020, 1, 10>>, <<2020, 2, 30>>, TRUE>> }

\* No invocation has started.
RetrievalStart ==
    /\ responses = <<>>
    /\ sPc = "created"
    /\ sError = NoError
    /\ sQueries = <<>>
    /\ sCombos = <<>>
    /\ sChunks = <<>>
    /\ sIssued = 0
    /\ sItems = <<>>
    /\ sSeen = {}
    /\ sYielded = <<>>
    /\ sRequests = <<>>
    /\ sPulls = 0
    /\ bPc = "created"
    /\ bError = NoError
    /\ bQueries = <<>>
    /\ bCombos = <<>>
    /\ bChunks = <<>>
    /\ bIssued = 0
    /\ bAll = <<>>
    /\ bChunkAcc = <<>>
    /\ bSeen = {}
    /\ bResults = <<>>
    /\ bRequests = <<>>
    /\ bReturned = NothingReturned

NoCountryArguments ==
    /\ inMcCountry = NoCountry
    /\ inGeoCountry = NoCountry
    /\ inAssignVar = <<>>
    /\ inValueMc = <<>>
    /\ inValueGeo = <<>>

RetrievalInit ==
    /\ inTemplates \in SeqsUpTo(RetrievalTemplatePool, MaxTemplates)
    /\ inVariables \in RetrievalVariablePool
    /\ \E d \in RetrievalDatePool :
        /\ inStart = d[1]
        /\ inEnd = d[2]
        /\ inChunking = d[3]
    /\ inPages \in 1..MaxRequests
    /\ setOrder \in SetOrders(inVariables)
    /\ TotalRequests(ExpandQueryTemplates(inTemplates, inVariables, setOrder).queries,
                     GetDateChunksForRetrieval(inStart, inEnd, inChunking).chunks,
                     inPages) <= MaxRequests
    /\ NoCountryArguments
    /\ RetrievalStart

\* The scenarios in which the two invocations are interleaved.
InterleavedInit ==
    TotalRequests(ExpandQueryTemplates(inTemplates, inVariables, setOrder).queries,
                  GetDateChunksForRetrieval(inStart, inEnd, inChunking).chunks,
                  inPages) <= MaxInterleaved

\* Scenarios with country arguments: one template over the variables a and
\* b, one page per query, no dates.
CountryTemplatePool ==
    { <<"{", "b", "}">>, <<"{", "a", "}", "{", "b", "}">> }

VariableA == [key |-> <<"a">>, val |-> << <<"3">> >>]
VariableB == [key |-> <<"b">>, val |-> << <<"1">>, <<"2">> >>]

CountryVariablePool == { <<VariableB>>, <<VariableA, VariableB>>, <<VariableB, VariableA>> }

\* A country for each value of b.
ValueCountries(first, second) ==
    << [key |-> <<"1">>, val |-> first], [key |-> <<"2">>, val |-> second] >>

CountryArguments(name, value_mc, value_geo, mc, geo) ==
    [name |-> name, value_mc |-> value_mc, value_geo |-> value_geo, mc |-> mc, geo |-> geo]

CountryArgumentPool ==
    { CountryArguments(<<>>, <<>>, <<>>, NoCountry, "France"),
      CountryArguments(<<>>, <<>>, <<>>, NoCountry, "Atlantis"),
      CountryArguments(<<>>, <<>>, <<>>, "France", NoCountry),
      CountryArguments(<<>>, <<>>, <<>>, "Atlantis", NoCountry),
      CountryArguments(<<"b">>, <<>>, ValueCountries("France", "Spain"), NoCountry, NoCountry),
      CountryArguments(<<"b">>, <<>>, ValueCountries("France", "Atlantis"), NoCountry, NoCountry),
      CountryArguments(<<"b">>, ValueCountries("France", "Spain"), <<>>, NoCountry, NoCountry),
      CountryArguments(<<"b">>, ValueCountries("France", "Atlantis"), <<>>, NoCountry, NoCountry),
      CountryArguments(<<"b">>, ValueCountries("Spain", "France"),
                       ValueCountries("France", "Spain"), NoCountry, NoCountry),
      CountryArguments(<<"b">>, <<>>, ValueCountries("France", "Spain"), NoCountry, "France"),
      CountryArguments(<<"b">>, ValueCountries("France", "Spain"), <<>>, "France", NoCountry) }

CountryInit ==
    /\ \E template \in CountryTemplatePool : inTemplates = <<template>>
    /\ inVariables \in CountryVariablePool
    /\ inStart = NoDate
    /\ inEnd = NoDate
    /\ inChunking = FALSE
    /\ inPages = 1
    /\ setOrder \in SetOrders(inVariables)
    /\ \E arguments \in CountryArgumentPool :
        /\ inAssignVar = arguments.name
        /\ inValueMc = arguments.value_mc
        /\ inValueGeo = arguments.value_geo
        /\ inMcCountry = arguments.mc
        /\ inGeoCountry = arguments.geo
    /\ RetrievalStart

RetrievalIdle ==
    /\ inTemplates = <<>>
    /\ inVariables = <<>>
    /\ inStart = NoDate
    /\ inEnd = NoDate
    /\ inChunking = FALSE
    /\ inPages = 0
    /\ setOrder = <<>>
    /\ NoCountryArguments
    /\ responses = <<>>
    /\ SIdle
    /\ BIdle

(***************************************************************************)
(* utils.py: timeout_function, which runs func under a SIGALRM alarm.      *)
(* Time is counted in seconds.  signal.alarm(n) arms one alarm due in n     *)
(* seconds, replacing any other; signal.alarm(0) disarms it.  When the      *)
(* alarm is due the signal is delivered to the code then running, where     *)
(* timeout_handler raises TimeoutException.                                 *)
(***************************************************************************)
NoAlarm == -1

\* What func does: it runs for `duration` seconds, then returns its result
\* or raises an exception of its own.
FuncPool ==
    [duration : 0..(MaxTimeout + 1), outcome : {"returns", "raises"}]

TimeoutIdle ==
    /\ tTimeout = 0
    /\ tFunc = [duration |-> 0, outcome |-> "returns"]
    /\ tPc = "idle"
    /\ tElapsed = 0
    /\ tAlarm = NoAlarm
    /\ tResult = "none"
    /\ tAfter = 0
    /\ tStray = FALSE

\* timeout_function(func, timeout=...) has been called.
TimeoutInit ==
    /\ tTimeout \in 1..MaxTimeout
    /\ tFunc \in FuncPool
    /\ tPc = "called"
    /\ tElapsed = 0
    /\ tAlarm = NoAlarm
    /\ tResult = "none"
    /\ tAfter = 0
    /\ tStray = FALSE

\* signal.signal(signal.SIGALRM, timeout_handler); signal.alarm(timeout)
TimeoutArm ==
    /\ tPc = "called"
    /\ tAlarm' = tTimeout
    /\ tPc' = "in_func"
    /\ UNCHANGED <<tTimeout, tFunc, tElapsed, tResult, tAfter, tStray>>
    /\ UNCHANGED <<exVars, dcVars, gVars, xVars, inVars, responses, sVars, bVars>>

\* One second passes, inside func or in the caller's code once
\* timeout_function has ended.  An alarm that is due is delivered first.
TimeoutTick ==
    /\ tAlarm # 0
    /\ \/ /\ tPc = "in_func"
          /\ tElapsed < tFunc.duration
          /\ tElapsed' = tElapsed + 1
          /\ tAfter' = tAfter
       \/ /\ tPc \in {"returned", "raised"}
          /\ tAfter < MaxTimeout
          /\ tAfter' = tAfter + 1
          /\ tElapsed' = tElapsed
    /\ tAlarm' = IF tAlarm > 0 THEN tAlarm - 1 ELSE tAlarm
    /\ UNCHANGED <<tTimeout, tFunc, tPc, tResult, tStray>>
    /\ UNCHANGED <<exVars, dcVars, gVars, xVars, inVars, responses, sVars, bVars>>

\* result = func(*args, **kwargs) ends: func returns, or raises an
\* exception that `except TimeoutException` does not catch and that leaves
\* timeout_function.
TimeoutFuncEnds ==
    /\ tPc = "in_func"
    /\ tElapsed = tFunc.duration
    /\ IF tFunc.outcome = "returns"
       THEN /\ tPc' = "after_func"
            /\ tResult' = tResult
       ELSE /\ tPc' = "raised"
            /\ tResult' = "exception"
    /\ UNCHANGED <<tTimeout, tFunc, tElapsed, tAlarm, tAfter, tStray>>
    /\ UNCHANGED <<exVars, dcVars, gVars, xVars, inVars, responses, sVars, bVars>>

\* signal.alarm(0); return result
TimeoutCancel ==
    /\ tPc = "after_func"
    /\ tAlarm' = NoAlarm
    /\ tPc' = "returned"
    /\ tResult' = "result"
    /\ UNCHANGED <<tTimeout, tFunc, tElapsed, tAfter, tStray>>
    /\ UNCHANGED <<exVars, dcVars, gVars, xVars, inVars, responses, sVars, bVars>>

\* The alarm is due: timeout_handler raises TimeoutException where the
\* program is.  Inside the try block it is caught and default_value is
\* returned; outside timeout_function it is raised in the caller's code.
TimeoutAlarm ==
    /\ tAlarm = 0
    /\ tAlarm' = NoAlarm
    /\ IF tPc \in {"in_func", "after_func"}
       THEN /\ tPc' = "returned"
            /\ tResult' = "default"
            /\ tStray' = tStray
       ELSE /\ tStray' = TRUE
            /\ UNCHANGED <<tPc, tResult>>
    /\ UNCHANGED <<tTimeout, tFunc, tElapsed, tAfter>>
    /\ UNCHANGED <<exVars, dcVars, gVars, xVars, inVars, responses, sVars, bVars>>

(***************************************************************************)
(* Specifications.                                                         *)
(***************************************************************************)
Init == ExIdle /\ DcIdle /\ GIdle /\ XIdle /\ RetrievalInit /\ TimeoutIdle

Next ==
    \/ StreamPull
    \/ StreamRequest
    \/ StreamItem
    \/ StreamFinish
    \/ BatchCall
    \/ BatchRequest
    \/ BatchReturn

Spec == Init /\ [][Next]_vars

InitCountry == ExIdle /\ DcIdle /\ GIdle /\ XIdle /\ CountryInit /\ TimeoutIdle

SpecCountry == InitCountry /\ [][Next]_vars

InitExpand == ExInit /\ DcIdle /\ GIdle /\ XIdle /\ RetrievalIdle /\ TimeoutIdle

NextExpand == CallExpandQueryTemplates

SpecExpand == InitExpand /\ [][NextExpand]_vars

InitChunks == ExIdle /\ DcInit /\ GIdle /\ XIdle /\ RetrievalIdle /\ TimeoutIdle

NextChunks == CallGetDateChunksForRetrieval

SpecChunks == InitChunks /\ [][NextChunks]_vars

InitGrounding == ExIdle /\ DcIdle /\ GInit /\ XIdle /\ RetrievalIdle /\ TimeoutIdle

NextGrounding == CallCheckGrounding

SpecGrounding == InitGrounding /\ [][NextGrounding]_vars

InitStrip == ExIdle /\ DcIdle /\ StripInit /\ XIdle /\ RetrievalIdle /\ TimeoutIdle

NextStrip == CallRemoveMarkdownLinks

SpecStrip == InitStrip /\ [][NextStrip]_vars

InitExtract == ExIdle /\ DcIdle /\ GIdle /\ XInit /\ RetrievalIdle /\ TimeoutIdle

NextExtract ==
    \/ ExtractUrl
    \/ ExtractReturn
    \/ StreamExtractUrl
    \/ StreamExtractFinish

SpecExtract == InitExtract /\ [][NextExtract]_vars

InitTimeout == ExIdle /\ DcIdle /\ GIdle /\ XIdle /\ RetrievalIdle /\ TimeoutInit

NextTimeout ==
    \/ TimeoutArm
    \/ TimeoutTick
    \/ TimeoutFuncEnds
    \/ TimeoutCancel
    \/ TimeoutAlarm

SpecTimeout == InitTimeout /\ [][NextTimeout]_vars

\* Two invocations on the same arguments whose steps interleave in any
\* order: the batch call may start, and proceed, at any point of the stream.
NextInterleaved ==
    \/ StreamPull
    \/ StreamRequest
    \/ StreamItem
    \/ StreamFinish
    \/ BatchStart
    \/ BatchRequest
    \/ BatchReturn

InitInterleaved == Init /\ InterleavedInit

SpecInterleaved == InitInterleaved /\ [][NextInterleaved]_vars

(***************************************************************************)
(* Properties of the retrieval pipelines.                                  *)
(***************************************************************************)
LinksOf(triples) == [i \in 1..Len(triples) |-> triples[i].link]

Occurrences(seq, x) == Cardinality({i \in 1..Len(seq) : seq[i] = x})

AllLinks == UNION {Range(r.items) : r \in ResponsePool}

\* The first request (numbered from 1) among the first n whose response
\* carried `link`, and the query that request was made for.
Returned(link, n) == {m \in 1..n : link \in Range(responses[m].items)}
FirstReturning(link, n) ==
    CHOOSE m \in Returned(link, n) : \A o \in Returned(link, n) : m <= o

\* The links the batch mapping holds, over all its entries.
BatchRetained == Flatten([i \in 1..Len(bResults) |-> bResults[i].val])

\* C1: in one streaming invocation no two yielded triples carry the same
\* link, and the seen set is exactly the set of links yielded so far (a link
\* is yielded only when unseen and is recorded when yielded).
C1_StreamYieldsEachLinkOnce ==
    /\ \A i, j \in 1..Len(sYielded) : i # j => sYielded[i].link # sYielded[j].link
    /\ sSeen = Range(LinksOf(sYielded))

\* A finished stream that was given the same link twice in one page and
\* again in another request, and yielded two distinct links.
C1_Witness ==
    /\ sPc = "done"
    /\ Len(sYielded) = 2
    /\ \E n, m \in 1..Len(responses) :
        /\ n # m
        /\ responses[n] = Page(<<"u1", "u1">>)
        /\ "u1" \in Range(responses[m].items)

\* C2: in the mapping the batch interface returns, each link occurs at most
\* once over all variable combinations, queries, chunks and pages.
C2_BatchHoldsEachLinkOnce ==
    bPc = "done" => \A link \in AllLinks : Occurrences(BatchRetained, link) <= 1

\* C3: a link returned for more than one query is yielded (stream) or
\* retained (batch) only under the first query, in processing order, whose
\* request returned it, with that query's variable combination.
C3_AttributedToFirstQuery ==
    /\ \A i \in 1..Len(sYielded) :
        LET first == FirstReturning(sYielded[i].link, sIssued) - 1
            q == QueryIndexOf(first, sChunks, inPages)
        IN  /\ sYielded[i].combo = sCombos[q]
            /\ \E c \in 1..Len(sChunks) :
                   sYielded[i].query = QueryWithFilters(sQueries[q], sChunks[c])
    /\ \A e \in 1..Len(bResults) : \A link \in Range(bResults[e].val) :
        LET first == FirstReturning(link, bIssued) - 1
            q == QueryIndexOf(first, bChunks, inPages)
        IN  bResults[e].key = <<bCombos[q], bQueries[q]>>

\* Both invocations ended after two queries with different combinations
\* were each given the link u1, which both interfaces emitted.
C3_Witness ==
    /\ sPc = "done"
    /\ bPc = "done"
    /\ "u1" \in Range(LinksOf(sYielded))
    /\ "u1" \in Range(BatchRetained)
    /\ \E n, m \in 1..Len(responses) :
        /\ "u1" \in Range(responses[n].items)
        /\ "u1" \in Range(responses[m].items)
        /\ bCombos[QueryIndexOf(n - 1, bChunks, inPages)]
             # bCombos[QueryIndexOf(m - 1, bChunks, inPages)]

\* The (combination, link) pairs each interface delivered.
StreamPairs == {<<sYielded[i].combo, sYielded[i].link>> : i \in 1..Len(sYielded)}
BatchPairs ==
    UNION {{<<bResults[e].key[1], link>> : link \in Range(bResults[e].val)} :
             e \in 1..Len(bResults)}
\* C4: given the same arguments and the same responses, the two interfaces
\* issue the same sequence of requests, and the (combination, link) pairs
\* retained in the batch mapping are the pairs the stream yielded.
C4_BatchEqualsStream ==
    (sPc = "done" /\ bPc = "done") =>
        /\ sRequests = bRequests
        /\ BatchPairs = StreamPairs

(***************************************************************************)
(* Properties of the template expander.                                    *)
(***************************************************************************)
\* The provided variables a template references: its text, lowercased,
\* holds {name} for the variable's normalized name.
ExReferenced(template) ==
    {i \in 1..Len(exVariables) :
        StrContains(StrLower(template), Placeholder(NormalizeName(exVariables[i].key)))}

RECURSIVE ProductOver(_, _)
ProductOver(f, S) ==
    IF S = {} THEN 1
    ELSE LET x == CHOOSE y \in S : TRUE IN f[x] * ProductOver(f, S \ {x})

ExSizes == [i \in 1..Len(exVariables) |-> Len(exVariables[i].val)]

ExExpectedCount(template) ==
    IF ExReferenced(template) = {} THEN 1 ELSE ProductOver(ExSizes, ExReferenced(template))

RECURSIVE ExBlockStart(_)
ExBlockStart(t) ==
    IF t = 1 THEN 0 ELSE ExBlockStart(t - 1) + ExExpectedCount(exTemplates[t - 1])

ExBlock(t) ==
    (ExBlockStart(t) + 1)..(ExBlockStart(t) + ExExpectedCount(exTemplates[t]))

\* The variable (index in exVariables) the j-th value of a template's
\* combinations stands for.
ExVariableAt(template, j) ==
    LET names == ListOfSet({NormalizeName(exVariables[i].key) : i \in ExReferenced(template)},
                           exOrder)
    IN  CHOOSE i \in ExReferenced(template) : NormalizeName(exVariables[i].key) = names[j]

\* C5: the two returned sequences have the same length; the entries come
\* in template order; a template referencing k provided variables has one
\* entry per element of the product of their value lists (each combination
\* of list positions exactly once), and a template referencing none has the
\* single entry (template, None).
C5_ExpansionIsCartesian ==
    exPc = "returned" =>
        /\ Len(exResult.queries) = Len(exResult.combos)
        /\ Len(exResult.queries) = ExBlockStart(Len(exTemplates) + 1)
        /\ \A t \in 1..Len(exTemplates) :
            LET template == exTemplates[t]
                ref == ExReferenced(template)
                k == Cardinality(ref)
                start == ExBlockStart(t)
                block == (start + 1)..(start + ExExpectedCount(template))
                at == [j \in 1..k |-> ExVariableAt(template, j)]
            IN  IF ref = {}
                THEN /\ exResult.queries[start + 1] = template
                     /\ exResult.combos[start + 1] = NoneCombo
                ELSE /\ \A p \in block :
                        /\ ~exResult.combos[p].none
                        /\ Len(exResult.combos[p].vals) = k
                     /\ \A a \in [ref -> ValuePool] :
                        LET tuple == [j \in 1..k |-> a[at[j]]]
                            mult == [i \in 1..Len(exVariables) |->
                                       IF i \in ref
                                       THEN Occurrences(exVariables[i].val, a[i])
                                       ELSE 1]
                        IN  Cardinality({p \in block : exResult.combos[p].vals = tuple})
                              = ProductOver(mult, ref)

\* An expansion of two templates, one referencing both variables with two
\* distinct values each (four entries), the other referencing none.
C5_Witness ==
    /\ exPc = "returned"
    /\ Len(exTemplates) = 2
    /\ Len(exResult.queries) = 5
    /\ \E t \in 1..2 :
        /\ Cardinality(ExReferenced(exTemplates[t])) = 2
        /\ \A i \in 1..Len(exVariables) : Cardinality(Range(exVariables[i].val)) = 2
    /\ \E t \in 1..2 : ExReferenced(exTemplates[t]) = {}

\* str.replace matching `old` (lowercase) whatever the case of the text.
RECURSIVE StrReplaceAnyCase(_, _, _)
StrReplaceAnyCase(s, old, new) ==
    IF Len(s) < Len(old) THEN s
    ELSE IF StrLower(SubSeq(s, 1, Len(old))) = old
         THEN new \o StrReplaceAnyCase(SubSeq(s, Len(old) + 1, Len(s)), old, new)
         ELSE <<Head(s)>> \o StrReplaceAnyCase(Tail(s), old, new)

RECURSIVE SubstituteAnyCase(_, _, _)
SubstituteAnyCase(query, var_names, combo) ==
    IF var_names = <<>> \/ combo = <<>> THEN query
    ELSE SubstituteAnyCase(
             StrReplaceAnyCase(query, Placeholder(Head(var_names)), Head(combo)),
             Tail(var_names), Tail(combo))

\* C6: each expanded query is its template with every placeholder of each
\* referenced variable, recognised whatever its case, replaced by the
\* variable's value from the combination; no such placeholder remains.
C6_PlaceholdersSubstituted ==
    exPc = "returned" =>
        \A t \in 1..Len(exTemplates) :
            LET template == exTemplates[t]
                ref == ExReferenced(template)
                names == [j \in 1..Cardinality(ref) |->
                            NormalizeName(exVariables[ExVariableAt(template, j)].key)]
            IN  ref # {} =>
                \A p \in ExBlock(t) :
                    /\ \A j \in 1..Len(names) :
                        ~StrContains(StrLower(exResult.queries[p]), Placeholder(names[j]))
                    /\ exResult.queries[p] =
                           SubstituteAnyCase(template, names, exResult.combos[p].vals)

(***************************************************************************)
(* Properties of the date chunker.                                         *)
(***************************************************************************)
\* Time chunking was asked for a valid range start_date <= end_date.
DcValidRange ==
    /\ dcChunking
    /\ ValidDate(dcStart)
    /\ ValidDate(dcEnd)
    /\ ToOrdinal(dcStart) <= ToOrdinal(dcEnd)

DcTotalDays == ToOrdinal(dcEnd) - ToOrdinal(dcStart) + 1

ChunkDays(chunk) == ToOrdinal(chunk.end) - ToOrdinal(chunk.start) + 1

\* C7: for a valid range the chunks partition it: the first starts at
\* start_date, the last ends at end_date, each has start <= end, and each
\* next chunk starts the day after the previous one ends.
C7_ChunksPartitionRange ==
    (dcPc # "input" /\ DcValidRange) =>
        LET chunks == dcResult.chunks
            n == Len(chunks)
        IN  /\ dcPc = "returned"
            /\ n >= 1
            /\ chunks[1].start = dcStart
            /\ chunks[n].end = dcEnd
            /\ \A i \in 1..n :
                /\ ValidDate(chunks[i].start)
                /\ ValidDate(chunks[i].end)
                /\ ToOrdinal(chunks[i].start) <= ToOrdinal(chunks[i].end)
            /\ \A i \in 1..(n - 1) :
                ToOrdinal(chunks[i + 1].start) = ToOrdinal(chunks[i].end) + 1

\* A valid range returned as three chunks.
C7_Witness ==
    /\ dcPc = "returned"
    /\ DcValidRange
    /\ Len(dcResult.chunks) = 3

\* C8: for a valid range of any length every returned chunk, the last
\* included, spans at most 366 inclusive days.
C8_ChunksAtMostAYear ==
    (dcPc = "returned" /\ DcValidRange) =>
        \A i \in 1..Len(dcResult.chunks) : ChunkDays(dcResult.chunks[i]) <= 366

\* C9: a valid range of total_days days is returned as ceiling(total_days /
\* 366) chunks; all but the last span floor(total_days / num_chunks) days and
\* the last ends at end_date; at most 366 days give the single chunk
\* {start_date, end_date}; 400 days give two chunks of 400 days in all.
C9_ChunkCountAndSizes ==
    (dcPc = "returned" /\ DcValidRange) =>
        LET chunks == dcResult.chunks
            n == Len(chunks)
            total == DcTotalDays
        IN  /\ n * 366 >= total
            /\ (n - 1) * 366 < total
            /\ \A i \in 1..(n - 1) : ChunkDays(chunks[i]) = total \div n
            /\ chunks[n].end = dcEnd
            /\ total <= 366 => chunks = <<[start |-> dcStart, end |-> dcEnd]>>
            /\ total = 400 =>
                /\ n = 2
                /\ ChunkDays(chunks[1]) + ChunkDays(chunks[2]) = 400

\* A 400-day range returned as two chunks.
C9_Witness ==
    /\ dcPc = "returned"
    /\ DcValidRange
    /\ DcTotalDays = 400
    /\ Len(dcResult.chunks) = 2

\* C10: with time chunking enabled the chunker raises, and returns no
\* chunk list, whenever end_date precedes start_date or either date is not
\* a valid calendar date.
C10_BadRangeRaises ==
    (/\ dcPc # "input"
     /\ dcChunking
     /\ \/ ~ValidDate(dcStart)
        \/ ~ValidDate(dcEnd)
        \/ ToOrdinal(dcEnd) < ToOrdinal(dcStart)) =>
        /\ dcPc = "raised"
        /\ dcResult.chunks = <<>>

(***************************************************************************)
(* Grounding verification.                                                 *)
(***************************************************************************)
\* The letters and digits of a text, in order.
RECURSIVE LettersAndDigits(_)
LettersAndDigits(text) ==
    IF text = <<>> THEN <<>>
    ELSE (IF Head(text) \in {"a", "b", "A", "B", "1", "2"} THEN <<Head(text)>> ELSE <<>>)
         \o LettersAndDigits(Tail(text))

\* The contiguous pieces of a text.
Segments(text) == {SubSeq(text, i, j) : i \in 1..(Len(text) + 1), j \in 0..Len(text)}

\* C11: _check_grounding returns (False, no normalized text) for a datapoint
\* without a grounding quote or with an empty one; otherwise it returns True
\* exactly when the letters and digits of the quote form a contiguous piece
\* of the letters and digits of the page text stripped of its markdown
\* links and images.
C11_GroundedIffReducedSubstring ==
    gPc = "done" =>
        IF ~gQuote.present \/ gQuote.text = <<>>
        THEN gResult.grounded = FALSE /\ gResult.text.none
        ELSE gResult.grounded
                <=> LettersAndDigits(gQuote.text)
                        \in Segments(LettersAndDigits(RemoveMarkdownLinks(gPage)))

\* A quote with punctuation is found in a page where a link had to be
\* stripped first.
C11_Witness ==
    /\ gPc = "done"
    /\ gResult.grounded
    /\ gQuote.text = <<"a", "%", "a">>
    /\ RemoveMarkdownLinks(gPage) # gPage
    /\ ~StrContains(gPage, gQuote.text)

\* Two texts are equal up to whitespace and punctuation, and up to letter
\* case when fold is TRUE.
RECURSIVE SameUpTo(_, _, _)
SameUpTo(x, y, fold) ==
    IF x # <<>> /\ Head(x) \notin {"a", "b", "A", "B", "1", "2"} THEN SameUpTo(Tail(x), y, fold)
    ELSE IF y # <<>> /\ Head(y) \notin {"a", "b", "A", "B", "1", "2"} THEN SameUpTo(x, Tail(y), fold)
    ELSE IF x = <<>> \/ y = <<>> THEN x = <<>> /\ y = <<>>
    ELSE /\ IF fold THEN LowerChar(Head(x)) = LowerChar(Head(y)) ELSE Head(x) = Head(y)
         /\ SameUpTo(Tail(x), Tail(y), fold)

\* C12 as stated: whenever the page contains the quote up to differences in
\* case, whitespace and punctuation, _check_grounding reports it grounded.
C12_CaseInsensitive ==
    (gPc = "done" /\ gQuote.present /\ gQuote.text # <<>>
        /\ \E piece \in Segments(gPage) : SameUpTo(piece, gQuote.text, TRUE))
    => gResult.grounded

\* C12: grounding is insensitive to whitespace and punctuation but not to
\* letter case: a quote is reported grounded whenever the page text stripped
\* of its markdown links and images contains it up to differences in
\* whitespace and punctuation, and a quote the stripped page contains only
\* in another letter case is reported not grounded.
C12_PunctuationInsensitive ==
    (gPc = "done" /\ gQuote.present /\ gQuote.text # <<>>) =>
        LET pieces == Segments(RemoveMarkdownLinks(gPage))
        IN  /\ (\E piece \in pieces : SameUpTo(piece, gQuote.text, FALSE))
                    => gResult.grounded
            /\ ((\E piece \in pieces : SameUpTo(piece, gQuote.text, TRUE))
                    /\ ~(\E piece \in pieces : SameUpTo(piece, gQuote.text, FALSE)))
                    => ~gResult.grounded

\* The quote "a 1" is found in a page that has "a%1" but not "a 1".
C12_Witness ==
    /\ gPc = "done"
    /\ gResult.grounded
    /\ gQuote.text = <<"a", " ", "1">>
    /\ StrContains(gPage, <<"a", "%", "1">>)
    /\ ~StrContains(gPage, gQuote.text)

(***************************************************************************)
(* Extraction.                                                             *)
(***************************************************************************)
\* The percent-encoding of a text: unreserved characters as they are, the
\* others as the hexadecimal value of their byte.
PercentEncoded(text) ==
    Flatten([i \in 1..Len(text) |->
        CASE text[i] \in {"a", "b", "A", "B", "1", "2"} -> <<text[i]>>
          [] text[i] = " " -> <<"%", "2", "0">>
          [] text[i] = "%" -> <<"%", "2", "5">>
          [] text[i] = "(" -> <<"%", "2", "8">>
          [] text[i] = ")" -> <<"%", "2", "9">>
          [] text[i] = "[" -> <<"%", "5", "B">>
          [] text[i] = "]" -> <<"%", "5", "D">>])

EmittedDatapoints == {i \in 1..Len(xOut) : xOut[i].kind = "datapoint"}

\* C13: every datapoint emitted by extract_data or extract_data_streaming
\* carries is_grounded and source; source is the original URL followed by
\* "#:~:text=" and the percent-encoded verbatim quote exactly when
\* is_grounded is True and the bare original URL exactly when it is False;
\* grounding is evaluated once per datapoint.
C13_SourceFollowsGrounding ==
    /\ \A i \in EmittedDatapoints :
          LET datapoint == xOut[i]
              url == xUrls[xFrom[i]]
              anchored == url \o <<"#", ":", "~", ":", "t", "e", "x", "t", "=">>
                              \o PercentEncoded(datapoint.grounding_quote.text)
          IN  /\ datapoint.is_grounded \in BOOLEAN
              /\ datapoint.is_grounded <=> datapoint.source = anchored
              /\ ~datapoint.is_grounded <=> datapoint.source = url
    /\ xChecks = Cardinality(EmittedDatapoints) + (IF xError = "KeyError" THEN 1 ELSE 0)

\* An invocation has emitted a grounded datapoint whose quote needed
\* encoding and a datapoint that is not grounded.
C13_Witness ==
    /\ xPc = "done"
    /\ \E i, j \in EmittedDatapoints :
          /\ xOut[i].is_grounded
          /\ xOut[i].source = xUrls[xFrom[i]] \o <<"#", ":", "~", ":", "t", "e", "x", "t", "=">>
                                \o <<"a", "%", "2", "0", "1">>
          /\ ~xOut[j].is_grounded
          /\ xOut[j].source = xUrls[xFrom[j]]

(***************************************************************************)
(* Failures, country arguments, order and laziness of the retrieval.       *)
(***************************************************************************)
\* The requests (numbered from 1) that were answered with a failure.
FailedRequests == {n \in 1..Len(responses) : ~responses[n].ok}

RequestError == [raised |-> TRUE, wrapped |-> TRUE, cause |-> "HTTPError"]

\* C14: a non-success response aborts the invocation, batch or streaming:
\* the failed request is the last one the invocation issues (no retry, no
\* request for a remaining page, chunk or query), the batch interface
\* returns no mapping, the stream yields no further triple, and the error
\* the caller receives is "Failed to retrieve webpages" chained from the
\* request error.
C14_FailureAborts ==
    /\ [](\A n \in FailedRequests :
            /\ n = Len(responses)
            /\ sIssued >= n =>
                  /\ sIssued = n
                  /\ Len(sRequests) = n
                  /\ sPc = "raised"
                  /\ sError = RequestError
                  /\ sItems = <<>>
            /\ bIssued >= n =>
                  /\ bIssued = n
                  /\ Len(bRequests) = n
                  /\ bPc = "raised"
                  /\ bError = RequestError
                  /\ ~bReturned.given)
    /\ [][/\ sPc = "raised" => (sPc' = "raised" /\ sYielded' = sYielded
                                    /\ sRequests' = sRequests /\ sError' = sError)
          /\ bPc = "raised" => (bPc' = "raised" /\ bReturned' = bReturned
                                    /\ bRequests' = bRequests /\ bError' = bError)]_vars

\* Both invocations failed on their second request with requests left.
C14_Witness ==
    /\ sPc = "raised"
    /\ bPc = "raised"
    /\ FailedRequests = {2}
    /\ sIssued = 2
    /\ bIssued = 2
    /\ TotalRequests(sQueries, sChunks, inPages) > 2
    /\ Len(sYielded) >= 1

\* C15 as stated: in an invocation one of whose requests failed, the caller
\* of either interface has obtained none of the results gathered before.
C15_AllOrNothing ==
    \A n \in FailedRequests :
        /\ sIssued >= n => sYielded = <<>>
        /\ bIssued >= n => ~bReturned.given

\* C15: retrieval is all-or-nothing in the batch interface: when a request
\* fails the caller of retrieve_webpages obtains no mapping, whatever was
\* gathered before.  The stream has by then delivered exactly the links of
\* the responses that preceded the failing request.
C15_BatchAllOrNothing ==
    \A n \in FailedRequests :
        /\ bIssued >= n => bReturned = [given |-> FALSE, mapping |-> <<>>]
        /\ sIssued >= n =>
              Range(LinksOf(sYielded)) = UNION {Range(responses[m].items) : m \in 1..(n - 1)}

\* The batch invocation failed after it had stored a query's results, and
\* the stream had yielded some.
C15_Witness ==
    /\ bPc = "raised"
    /\ bError.cause = "HTTPError"
    /\ bResults # <<>>
    /\ \E e \in 1..Len(bResults) : bResults[e].val # <<>>
    /\ ~bReturned.given
    /\ sYielded # <<>>

InputValidationErrors == {"AssertionError", "KeyError", "ValueError", "TypeError"}

\* C16 as stated: an unrecognized country name, global or assigned to a
\* variable value, for geolocation or for the site list, or a malformed
\* date range, raises its error before any request of the invocation.
C16_ValidationBeforeRequests ==
    /\ (sError.raised /\ sError.cause \in InputValidationErrors)
          => (sIssued = 0 /\ sRequests = <<>>)
    /\ (bError.raised /\ bError.cause \in InputValidationErrors)
          => (bIssued = 0 /\ bRequests = <<>>)

CountryConflict ==
    inAssignVar # <<>> /\ (inMcCountry # "none" \/ inGeoCountry # "none")

\* C17: retrieve_webpages_streaming given a country-assignment variable
\* together with a global Media Cloud country or a global geolocation
\* country ends in an assertion error at its first step: it issues no
\* request and yields no triple.
C17_ConflictRaises ==
    CountryConflict =>
        /\ sPc \in {"created", "raised"}
        /\ sPc = "raised" => (sError.raised /\ sError.cause = "AssertionError" /\ sPulls = 1)
        /\ sIssued = 0
        /\ sRequests = <<>>
        /\ sYielded = <<>>

\* The stream was pulled and raised, with a variable designated and a
\* global Media Cloud country.
C17_Witness ==
    /\ inAssignVar = <<"b">>
    /\ inMcCountry = "France"
    /\ inGeoCountry = "none"
    /\ sPc = "raised"
    /\ sPulls = 1

\* The value substituted for the designated variable in query q of the one
\* template of the scenario: the combination's entry at the variable's
\* place among the template's placeholders.
DesignatedName == NormalizeName(inAssignVar)
TemplateNames ==
    ListOfSet(Placeholders(inTemplates[1], NormalizedVariableNames(inVariables)), setOrder)
SubstitutedValue(q) ==
    sCombos[q].vals[CHOOSE j \in 1..Len(TemplateNames) : TemplateNames[j] = DesignatedName]

\* C18 as stated: for every query whose template references the designated
\* variable, every request of the query uses the site list and the
\* geolocation country assigned to the value substituted for that variable.
C18_RequestsUseAssignedCountry ==
    (inAssignVar # <<>> /\ sQueries # <<>>
        /\ DesignatedName \in Range(TemplateNames)) =>
        \A n \in 1..Len(sRequests) :
            LET value == SubstitutedValue(QueryIndexOf(n - 1, sChunks, inPages))
            IN  /\ DictHas(inValueMc, value) =>
                      /\ DictHas(CountryToMcSources, DictGet(inValueMc, value))
                      /\ sRequests[n].sites
                            = DictGet(CountryToMcSources, DictGet(inValueMc, value))
                /\ DictHas(inValueGeo, value) =>
                      /\ DictHas(CountryToCode, DictGet(inValueGeo, value))
                      /\ sRequests[n].gl = DictGet(CountryToCode, DictGet(inValueGeo, value))

\* Where a yielded link was obtained: query, chunk, page, place in the page.
PlaceIn(items, link) == CHOOSE i \in 1..Len(items) : items[i] = link /\ \A j \in 1..(i - 1) : items[j] # link
Origin(i) ==
    LET n == FirstReturning(sYielded[i].link, sIssued)
    IN  << QueryIndexOf(n - 1, sChunks, inPages), ChunkIndexOf(n - 1, sChunks, inPages),
           PageIndexOf(n - 1, inPages), PlaceIn(responses[n].items, sYielded[i].link) >>

Before(a, b) ==
    \E i \in 1..4 : a[i] < b[i] /\ \A j \in 1..(i - 1) : a[j] = b[j]

\* C19: the yielded triples are in the order of query index, then chunk
\* index, then page offset, then place in the page response.
C19_YieldedInOrder ==
    \A i, j \in 1..Len(sYielded) : i < j => Before(Origin(i), Origin(j))

\* A finished stream yielded two triples obtained for two different chunks.
C19_Witness ==
    /\ sPc = "done"
    /\ Len(sYielded) = 2
    /\ Len(sChunks) = 2
    /\ Origin(1)[2] # Origin(2)[2]

\* C20: the producer does no work ahead of consumption: a request is issued
\* only inside a pull of the caller, after the caller has pulled every
\* triple yielded so far and every item of the current page has been gone
\* through; so none is issued before the first pull or once the caller
\* stops pulling.
C20_NoWorkAhead ==
    [][sIssued' # sIssued =>
          /\ sPulls >= 1
          /\ sPulls = Len(sYielded) + 1
          /\ sPulls' = sPulls
          /\ sItems = <<>>]_vars

\* The second request was issued after the caller had pulled both results
\* of the first page and pulled again.
C20_Witness ==
    /\ sIssued = 2
    /\ responses[1] = Page(<<"u1", "u2">>)
    /\ Len(sYielded) = 2
    /\ sPulls = 3

(***************************************************************************)
(* Pagination and termination of a retrieval invocation.                   *)
(***************************************************************************)
\* The requests are grouped by (query, chunk) pair, pairs in the order of
\* the nested loops; inside a group the offsets are 0, 20, 40, ...
AsPaginated(requests, queries, chunks) ==
    \A n \in 1..Len(requests) :
        LET pair == (n - 1) \div inPages
            page == (n - 1) - pair * inPages
            q == pair \div Len(chunks)
            c == pair - q * Len(chunks)
        IN  /\ requests[n].start = 20 * page
            /\ requests[n].query = QueryWithFilters(queries[q + 1], chunks[c + 1])

\* What is left to do, compared lexicographically: whether the queries are
\* still to be expanded, the requests to issue, the items of the current
\* page to go through, and the steps before the invocation pauses or ends.
StreamRank ==
    << IF sPc = "created" THEN 1 ELSE 0,
       Len(sQueries) * Len(sChunks) * inPages - sIssued,
       Len(sItems),
       CASE sPc = "suspended" -> 2 [] sPc = "running" -> 1 [] OTHER -> 0 >>
BatchRank ==
    << IF bPc = "created" THEN 1 ELSE 0,
       Len(bQueries) * Len(bChunks) * inPages - bIssued,
       0,
       CASE bPc = "running" -> 1 [] OTHER -> 0 >>

\* C21: an invocation in which nothing failed issues, for every (expanded
\* query, date chunk) pair in loop order, exactly results_pages_per_query
\* requests at offsets 0, 20, 40, ... whatever the pages returned hold, never
\* more than (queries) x (chunks) x (pages) requests, and exactly that many
\* when it has ended; it terminates, since every step of the invocation
\* lowers a measure of the work left that cannot go below zero.
C21_PaginationComplete ==
    /\ [](/\ AsPaginated(sRequests, sQueries, sChunks)
          /\ AsPaginated(bRequests, bQueries, bChunks)
          /\ Len(sRequests) = sIssued
          /\ Len(bRequests) = bIssued
          /\ sPc = "done" => Len(sRequests) = Len(sQueries) * Len(sChunks) * inPages
          /\ bPc = "done" => Len(bRequests) = Len(bQueries) * Len(bChunks) * inPages
          /\ \A i \in 1..4 : StreamRank[i] >= 0 /\ BatchRank[i] >= 0)
    /\ [][/\ sVars' # sVars => Before(StreamRank', StreamRank)
          /\ bVars' # bVars => Before(BatchRank', BatchRank)]_vars

\* Both invocations ended after two pages for each of two chunks, one page
\* empty and one with two results.
C21_Witness ==
    /\ sPc = "done"
    /\ bPc = "done"
    /\ inPages = 2
    /\ Len(sChunks) = 2
    /\ Len(sRequests) = 4
    /\ Len(bRequests) = 4
    /\ \E n, m \in 1..4 : responses[n].items = <<>> /\ Len(responses[m].items) = 2

(***************************************************************************)
(* Scope of the seen-link registry.                                        *)
(***************************************************************************)
\* The links of the responses to requests from..to, in order.
LinksReturned(from, to) ==
    Flatten([n \in 1..(to - from + 1) |-> responses[from + n - 1].items])

\* A sequence without the repetitions of its elements.
RECURSIVE FirstOccurrences(_)
FirstOccurrences(seq) ==
    IF seq = <<>> THEN <<>>
    ELSE LET rest == FirstOccurrences(SubSeq(seq, 1, Len(seq) - 1))
         IN  IF seq[Len(seq)] \in Range(rest) THEN rest ELSE Append(rest, seq[Len(seq)])

\* What a streaming invocation run alone has yielded once it has gone
\* through the items it was given: each link once, at its first place.
StreamAlone ==
    LET given == LinksReturned(1, sIssued)
    IN  FirstOccurrences(SubSeq(given, 1, Len(given) - Len(sItems)))

\* What a batch invocation run alone retains for query q: of each chunk's
\* results, those whose link no earlier chunk of the invocation returned.
FirstRequestOf(q, c) == ((q - 1) * Len(bChunks) + (c - 1)) * inPages + 1
ChunkKept(q, c) ==
    SelectSeq(LinksReturned(FirstRequestOf(q, c), FirstRequestOf(q, c) + inPages - 1),
              LAMBDA link : link \notin Range(LinksReturned(1, FirstRequestOf(q, c) - 1)))
QueryKept(q) == Flatten([c \in 1..Len(bChunks) |-> ChunkKept(q, c)])

\* The mapping it returns: an entry per (combination, query) pair, holding
\* what the last query with that pair retained.
KeyOf(q) == <<bCombos[q], bQueries[q]>>
LastWithKey(key) ==
    CHOOSE q \in 1..Len(bQueries) :
        KeyOf(q) = key /\ \A o \in (q + 1)..Len(bQueries) : KeyOf(o) # key
BatchAloneAgrees(mapping) ==
    /\ {mapping[e].key : e \in 1..Len(mapping)} = {KeyOf(q) : q \in 1..Len(bQueries)}
    /\ \A e \in 1..Len(mapping) : mapping[e].val = QueryKept(LastWithKey(mapping[e].key))

\* C22: the seen-link registry belongs to one invocation.  With a streaming
\* and a batch invocation on the same arguments and responses, run one after
\* the other in either order or with their steps interleaved in any order,
\* the stream has yielded what it yields alone (the first occurrence of each
\* link it was given) and the batch returns the mapping it returns alone; in
\* particular a link one of them emitted is not suppressed in the other.
C22_RegistryPerInvocation ==
    /\ LinksOf(sYielded) = StreamAlone
    /\ bReturned.given => BatchAloneAgrees(bReturned.mapping)
    /\ (sPc = "done" /\ bReturned.given) =>
          Range(LinksOf(sYielded)) = Range(LinksReturned(1, sIssued))

\* The batch invocation has returned a mapping holding u1 while the stream,
\* which has requests left to make, has yielded u1 too.
C22_Witness ==
    /\ bReturned.given
    /\ "u1" \in Range(BatchRetained)
    /\ sPc = "suspended"
    /\ sIssued < bIssued
    /\ "u1" \in Range(LinksOf(sYielded))

(***************************************************************************)
(* Markdown stripping.                                                     *)
(***************************************************************************)
\* C23 as stated: _remove_markdown_links applied to its own output returns
\* that output unchanged.
C23_StripIdempotent ==
    \A n \in 2..Len(gStripped) : gStripped[n] = gStripped[n - 1]

\* Text without markdown syntax, and the images and the inline link of the
\* pages of the model.
PlainText(text) == \A i \in 1..Len(text) : text[i] \in {"a", "A", "1", " ", "%"}
Images == { <<"!", "[", "A", "]", "(", "b", ")">>, <<"!", "[", "]", "(", "b", ")">> }
InlineLink == <<"[", "a", "]", "(", "b", ")">>

\* The page is plain text around one piece from..to.
PlainAround(from, to) ==
    /\ PlainText(SubSeq(gPage, 1, from - 1))
    /\ PlainText(SubSeq(gPage, to + 1, Len(gPage)))
Around(from, to, kept) ==
    LettersAndDigits(SubSeq(gPage, 1, from - 1) \o kept \o SubSeq(gPage, to + 1, Len(gPage)))

\* C24 as stated: in a page of plain text around one image, with or without
\* alt text, the text used for grounding holds the letters and digits of the
\* plain text only; around one inline link it holds those and the link's
\* text.
C24_ImagesDeleted ==
    gStripped # <<>> =>
        \A from \in 1..Len(gPage) : \A to \in from..Len(gPage) :
            PlainAround(from, to) =>
                /\ SubSeq(gPage, from, to) \in Images
                      => LettersAndDigits(gStripped[1]) = Around(from, to, <<>>)
                /\ SubSeq(gPage, from, to) = InlineLink
                      => LettersAndDigits(gStripped[1]) = Around(from, to, <<"a">>)

(***************************************************************************)
(* Pages without usable output, and the end-of-URL markers.                *)
(***************************************************************************)
\* The places in the URL list of the URLs handed to the crawler, in order:
\* all but the PDFs skipped because PDF handling is off.  The j-th recorded
\* crawl is the one of URL number Crawled[j].
Crawled ==
    SelectSeq([k \in 1..Len(xUrls) |-> k],
              LAMBDA k : ~StrContains(xUrls[k], <<".", "p", "d", "f">>) \/ xHandlePdfs)

\* The datapoints emitted for URL number k, in order.
DatapointsOf(k) ==
    LET at == SelectSeq([i \in 1..Len(xOut) |-> i],
                        LAMBDA i : xFrom[i] = k /\ xOut[i].kind = "datapoint")
    IN  [n \in 1..Len(at) |-> xOut[at[n]]]

\* The datapoints a page's output calls for.
ExpectedOf(j) ==
    IF xLog[j].result.content = "json"
    THEN ProcessDatapoints(xUrls[Crawled[j]], xLog[j].result.data, xLog[j].result.markdown).out
    ELSE <<>>

\* C25: a page whose extraction output is not valid JSON contributes no
\* datapoint and does not end the invocation: the invocation goes on to the
\* next URL and, if it is raised, it is at a later URL (a later page's
\* output, or a PDF without OCR configuration); when it has gone through the
\* list every URL handed to the crawler has been crawled and the datapoints
\* of each are emitted.
C25_InvalidJsonSkipped ==
    /\ Len(xLog) <= Len(Crawled)
    /\ \A j \in 1..Len(xLog) :
          xLog[j].result.content = "invalid" =>
              /\ DatapointsOf(Crawled[j]) = <<>>
              /\ xIdx > Crawled[j]
              /\ xPc = "raised" => (j < Len(xLog) \/ xError = "ValueError")
    /\ xPc = "done" =>
          /\ Len(xLog) = Len(Crawled)
          /\ \A j \in 1..Len(xLog) : DatapointsOf(Crawled[j]) = ExpectedOf(j)

\* An invocation ended after a page without valid JSON followed by a page
\* whose datapoint was emitted.
C25_Witness ==
    /\ xPc = "done"
    /\ Len(xLog) = 2
    /\ xLog[1].result.content = "invalid"
    /\ \E i \in 1..Len(xOut) : xOut[i].kind = "datapoint" /\ xFrom[i] = 2

(***************************************************************************)
(* The query of a yielded triple, and the completeness of the mapping.     *)
(***************************************************************************)
\* C26 as stated: the query of every yielded triple is the expanded query
\* of the triple's variable combination, the string the batch interface
\* uses as its mapping key, whatever date bounds apply to the requests.
C26_YieldsExpandedQuery ==
    \A i \in 1..Len(sYielded) :
        \E q \in 1..Len(sQueries) :
            /\ sYielded[i].combo = sCombos[q]
            /\ sYielded[i].query = sQueries[q]

\* C28 as stated: the mapping the batch interface returns holds, under some
\* (variable combination, query) entry, every link that a page request of
\* the invocation returned.
C28_MappingLosesNothing ==
    bReturned.given =>
        \A n \in 1..bIssued : \A link \in Range(responses[n].items) :
            \E e \in 1..Len(bReturned.mapping) : link \in Range(bReturned.mapping[e].val)

\* The places in the output of the markers of URL number k.
MarkersOf(k) == {i \in 1..Len(xOut) : xFrom[i] = k /\ xOut[i].kind = "url_done"}

WithoutError(data) == SelectSeq(data, LAMBDA datapoint : datapoint.error \in {"missing", "falsy"})

\* C30 as stated: no datapoint without an error field aborts the
\* extraction, and for every crawled page with JSON output the datapoints
\* emitted are those whose error field is absent or falsy, in order, each
\* with is_grounded and source and without an error field.
C30_ErrorFieldOptional ==
    /\ xError # "KeyError"
    /\ \A j \in 1..Len(xLog) :
          xLog[j].result.content = "json" =>
              LET emitted == DatapointsOf(Crawled[j])
                  kept == WithoutError(xLog[j].result.data)
              IN  /\ Len(emitted) = Len(kept)
                  /\ \A n \in 1..Len(emitted) :
                        /\ emitted[n].grounding_quote = kept[n].grounding_quote
                        /\ emitted[n].is_grounded \in BOOLEAN
                        /\ "source" \in DOMAIN emitted[n]
                        /\ "error" \notin DOMAIN emitted[n]

(***************************************************************************)
(* The alarm of timeout_function.                                          *)
(***************************************************************************)
\* C29 as stated: once timeout_function has ended, by returning func's
\* result, by returning the default value on timeout, or with an exception
\* of func, no alarm is armed, and no TimeoutException is raised in the
\* code that runs afterwards.
C29_NoAlarmLeftArmed ==
    /\ tPc \in {"returned", "raised"} => tAlarm = -1
    /\ ~tStray

====
